---- MODULE Spec2Model ----
(***************************************************************************)
(* EBIOS Risk Manager calculator: the workshop state containers            *)
(* (src/modules/workshop1.py .. workshop5.py) and the risk matrix of       *)
(* src/modules/risk_calculator.py, as state machines.                      *)
(*                                                                         *)
(* Conventions.                                                            *)
(*  - Each workshop's `self.study` / `self.assessment` dict is one         *)
(*    variable (a1..a5) holding a record with the dict's keys.             *)
(*  - Each method is an operator from the assessment and the arguments to  *)
(*    [raised, a, ret]: whether the call raised, the assessment after the  *)
(*    call, and the returned value.  The actions apply these operators.    *)
(*  - Ratios (efficacite) are integers in hundredths: 70 is 0.70.  On the  *)
(*    grids used here the float arithmetic of the code agrees with the     *)
(*    exact arithmetic of the model (Python's round is round-half-even).   *)
(*  - Generated ids f"M{n}", f"SR{n}", ... are the integer n.              *)
(*  - `fichiers` is the directory data/assessments: a function from the    *)
(*    paths of the files it holds to their JSON documents.                 *)
(*  - `appels` counts the calls made so far; it only bounds the runs.      *)
(*  - Free-text fields that no computation reads (nom, description,        *)
(*    justification, the dates) are left out of the records.               *)
(***************************************************************************)
EXTENDS Integers, Sequences, FiniteSets, TLC

VARIABLES a1, a2, a3, a4, a5, fichiers, last, calculs, args, appels

vars == <<a1, a2, a3, a4, a5, fichiers, last, calculs, args, appels>>

(***************************************************************************)
(* Bounds of the model                                                     *)
(***************************************************************************)
\* calls made on one workshop object in a session
MaxAppels == 5

\* calls of a SpecMatrice run
MaxAppelsMatrice == 2

\* calls of a SpecResiduel run (the first one is the add_risque of Init)
MaxAppelsResiduel == 6

\* calls of a SpecW2 run
MaxAppelsW2 == 6

\* source and objective ids tried by map_sr_to_ov: 1 .. MaxRefId
MaxRefId == 2

\* calls of a SpecW34 run
MaxAppelsW34 == 3

\* measure ids tried by associate_mesure_to_risque: M1 .. M<MaxMesureId>
MaxMesureId == 2

\* calls of a SpecW12 run
MaxAppelsW12 == 3

\* calls of a SpecPlan run, after the registrations of its Init
MaxAppelsPlan == 4

\* measures registered in the Init of SpecPlan: 0 .. MaxMesuresPlan
MaxMesuresPlan == 11

\* calls of a SpecVraisemblance run
MaxAppelsVraisemblance == 5

\* scenario ids tried by calculate_vraisemblance_scenario: SO1 .. SO<MaxScenarioId>
MaxScenarioId == 1

\* calls of a SpecSynthese run, after the registrations of its Init
MaxAppelsSynthese == 4

\* calls of a SpecGravite run
MaxAppelsGravite == 4

\* calls of a SpecAcceptation run (the first one is the add_risque of Init)
MaxAppelsAcceptation == 5

\* calls of a run of SpecCalculateur
MaxAppelsCalculateur == 2

\* calls of a run of SpecIds
MaxAppelsIds == 4

\* calls of a run of SpecPersistance
MaxAppelsPersistance == 4

\* calls of a run of SpecCriticite
MaxAppelsCriticite == 3

\* calls of a run of SpecStatistiques
MaxAppelsStatistiques == 6

(***************************************************************************)
(* Python helpers                                                          *)
(***************************************************************************)
\* seq[i] of a Python list: negative indices count from the end, anything
\* outside -len..len-1 raises IndexError.
PyInRange(seq, i) == -Len(seq) <= i /\ i < Len(seq)

PyIndex(seq, i) == IF i >= 0 THEN seq[i + 1] ELSE seq[Len(seq) + i + 1]

\* round(n / d) for integers n >= 0, d > 0: nearest integer, ties to even.
PyRound(n, d) ==
    LET q == n \div d
        r == n % d
    IN  IF 2 * r < d THEN q
        ELSE IF 2 * r > d THEN q + 1
        ELSE IF q % 2 = 0 THEN q ELSE q + 1

Max(x, y) == IF x >= y THEN x ELSE y

Min(x, y) == IF x <= y THEN x ELSE y

RECURSIVE SumSeq(_)
SumSeq(s) == IF s = <<>> THEN 0 ELSE Head(s) + SumSeq(Tail(s))

\* x in s, for a list s
InList(x, s) == \E i \in 1..Len(s) : s[i] = x

\* next((x for x in s if ...), None): the first of the positions I that
\* satisfy the condition, 0 when there is none
FirstOf(I) == IF I = {} THEN 0 ELSE CHOOSE i \in I : \A j \in I : i <= j

\* list.remove(x) at a known position
RemoveAt(s, i) == SubSeq(s, 1, i - 1) \o SubSeq(s, i + 1, Len(s))

(***************************************************************************)
(* Workshop1 (src/modules/workshop1.py)                                    *)
(* A sensibilite dict is a function from the keys it holds to ratings.     *)
(***************************************************************************)
\* the empty dict
EmptyDict == [k \in {} |-> 0]

W1Init ==
    [missions |-> <<>>, valeurs_metier |-> <<>>, biens_supports |-> <<>>,
     evenements_redoutes |-> <<>>, socle_securite |-> EmptyDict]

\* max(sensibilite.values())
MaxOf(S) == CHOOSE x \in S : \A y \in S : y <= x

add_mission(a, criticite) ==
    IF ~(1 <= criticite /\ criticite <= 4) THEN [raised |-> TRUE, a |-> a]
    ELSE LET mission == [id |-> Len(a.missions) + 1, criticite |-> criticite]
         IN  [raised |-> FALSE, a |-> [a EXCEPT !.missions = Append(@, mission)]]

\* (mutant) the loop over the keys stops before 'T'
add_valeur_metier_SansT(a, sensibilite) ==
    IF \E cle \in {"D", "I", "C"} :
           \/ cle \notin DOMAIN sensibilite
           \/ ~(1 <= sensibilite[cle] /\ sensibilite[cle] <= 4)
    THEN [raised |-> TRUE, a |-> a]
    ELSE LET valeur == [id |-> Len(a.valeurs_metier) + 1,
                        sensibilite |-> sensibilite,
                        niveau_max |->
                            MaxOf({sensibilite[k] : k \in DOMAIN sensibilite})]
         IN  [raised |-> FALSE,
              a |-> [a EXCEPT !.valeurs_metier = Append(@, valeur)]]

\* the loop of lines 81-85 raises at the first key that is missing or whose
\* rating is outside 1..4; nothing has been stored by then
add_valeur_metier(a, sensibilite) ==
    IF \E cle \in {"D", "I", "C", "T"} :
           \/ cle \notin DOMAIN sensibilite
           \/ ~(1 <= sensibilite[cle] /\ sensibilite[cle] <= 4)
    THEN [raised |-> TRUE, a |-> a]
    ELSE LET valeur == [id |-> Len(a.valeurs_metier) + 1,
                        sensibilite |-> sensibilite,
                        niveau_max |->
                            MaxOf({sensibilite[k] : k \in DOMAIN sensibilite})]
         IN  [raised |-> FALSE,
              a |-> [a EXCEPT !.valeurs_metier = Append(@, valeur)]]

add_bien_support(a, valeurs_supportees) ==
    LET bien == [id |-> Len(a.biens_supports) + 1,
                 valeurs_supportees |-> valeurs_supportees]
    IN  [raised |-> FALSE, a |-> [a EXCEPT !.biens_supports = Append(@, bien)]]

add_evenement_redoute(a, gravite, biens_impactes) ==
    IF ~(1 <= gravite /\ gravite <= 4) THEN [raised |-> TRUE, a |-> a]
    ELSE LET evenement == [id |-> Len(a.evenements_redoutes) + 1,
                           gravite |-> gravite,
                           biens_impactes |-> biens_impactes]
         IN  [raised |-> FALSE,
              a |-> [a EXCEPT !.evenements_redoutes = Append(@, evenement)]]

\* self.study['socle_securite'][domaine] = score
evaluate_socle(a, domaine, score) ==
    IF ~(0 <= score /\ score <= 100) THEN [raised |-> TRUE, a |-> a]
    ELSE [raised |-> FALSE,
          a |-> [a EXCEPT !.socle_securite =
                     [d \in DOMAIN @ \cup {domaine} |->
                         IF d = domaine THEN score ELSE @[d]]]]

(***************************************************************************)
(* Workshop5 (src/modules/workshop5.py)                                    *)
(***************************************************************************)
W5Init ==
    [risques |-> <<>>, mesures_traitement |-> <<>>, plan_traitement |-> <<>>,
     risques_residuels |-> <<>>, risques_acceptes |-> <<>>, budget_estime |-> 0]

matrice == << <<1, 1, 2, 2>>, <<1, 2, 2, 3>>, <<2, 2, 3, 4>>, <<2, 3, 4, 4>> >>

\* (mutant) the matrix is indexed without the - 1
_calculate_risk_score_SansDecalage(gravite, vraisemblance) ==
    IF ~PyInRange(matrice, gravite) THEN [raised |-> TRUE, ret |-> 0]
    ELSE LET ligne == PyIndex(matrice, gravite)
         IN  IF ~PyInRange(ligne, vraisemblance) THEN [raised |-> TRUE, ret |-> 0]
             ELSE [raised |-> FALSE, ret |-> PyIndex(ligne, vraisemblance)]

\* matrice[gravite - 1][vraisemblance - 1]
_calculate_risk_score(gravite, vraisemblance) ==
    IF ~PyInRange(matrice, gravite - 1) THEN [raised |-> TRUE, ret |-> 0]
    ELSE LET ligne == PyIndex(matrice, gravite - 1)
         IN  IF ~PyInRange(ligne, vraisemblance - 1) THEN [raised |-> TRUE, ret |-> 0]
             ELSE [raised |-> FALSE, ret |-> PyIndex(ligne, vraisemblance - 1)]

W5_get_risk_level(score) ==
    IF score = 1 THEN "Faible"
    ELSE IF score = 2 THEN "Acceptable"
    ELSE IF score = 3 THEN "Modéré"
    ELSE IF score = 4 THEN "Critique"
    ELSE "Indéterminé"

add_risque(a, risque_id, gravite, vraisemblance) ==
    LET sc == _calculate_risk_score(gravite, vraisemblance)
    IN  IF sc.raised THEN [raised |-> TRUE, a |-> a]
        ELSE LET risque == [id |-> risque_id, gravite |-> gravite,
                            vraisemblance |-> vraisemblance,
                            score_brut |-> sc.ret,
                            niveau_brut |-> W5_get_risk_level(sc.ret),
                            statut |-> "Non traité",
                            option_traitement |-> "None",
                            mesures_associees |-> <<>>]
             IN  [raised |-> FALSE,
                  a |-> [a EXCEPT !.risques = Append(@, risque)]]

options_valides == {"Atténuation", "Transfert", "Évitement", "Acceptation"}

\* position of the first risk carrying the id, 0 when there is none
FindRisque(a, risque_id) ==
    FirstOf({i \in 1..Len(a.risques) : a.risques[i].id = risque_id})

FindMesure(a, mesure_id) ==
    FirstOf({j \in 1..Len(a.mesures_traitement) :
                a.mesures_traitement[j].id = mesure_id})

\* (mutant) the option is validated after the risk has been updated
define_traitement_ValidationTardive(a, risque_id, option) ==
    LET i == FindRisque(a, risque_id)
    IN  IF i = 0 THEN [raised |-> TRUE, a |-> a]
        ELSE LET b == [a EXCEPT !.risques[i].option_traitement = option,
                                !.risques[i].statut = "Stratégie définie"]
             IN  [raised |-> option \notin options_valides, a |-> b]

define_traitement(a, risque_id, option) ==
    IF option \notin options_valides THEN [raised |-> TRUE, a |-> a]
    ELSE LET i == FindRisque(a, risque_id)
         IN  IF i = 0 THEN [raised |-> TRUE, a |-> a]
             ELSE [raised |-> FALSE,
                   a |-> [a EXCEPT !.risques[i].option_traitement = option,
                                   !.risques[i].statut = "Stratégie définie"]]

add_mesure_traitement(a, cout_estime, efficacite, delai, responsable) ==
    IF ~(0 <= efficacite /\ efficacite <= 100) THEN [raised |-> TRUE, a |-> a]
    ELSE LET mesure == [id |-> Len(a.mesures_traitement) + 1,
                        cout_estime |-> cout_estime,
                        efficacite |-> efficacite,
                        delai_mise_en_oeuvre |-> delai,
                        responsable |-> responsable,
                        risques_couverts |-> <<>>]
         IN  [raised |-> FALSE,
              a |-> [a EXCEPT !.mesures_traitement = Append(@, mesure),
                              !.budget_estime = @ + cout_estime]]

associate_mesure_to_risque(a, risque_id, mesure_id) ==
    LET i == FindRisque(a, risque_id)
        j == FindMesure(a, mesure_id)
    IN  IF i = 0 \/ j = 0 THEN [raised |-> FALSE, a |-> a, ret |-> FALSE]
        ELSE LET b1 == IF ~InList(mesure_id, a.risques[i].mesures_associees)
                       THEN [a EXCEPT !.risques[i].mesures_associees =
                                          Append(@, mesure_id)]
                       ELSE a
                b2 == IF ~InList(risque_id, b1.mesures_traitement[j].risques_couverts)
                        THEN [b1 EXCEPT !.mesures_traitement[j].risques_couverts =
                                            Append(@, risque_id)]
                        ELSE b1
             IN  [raised |-> FALSE, a |-> b2, ret |-> TRUE]

\* (mutant) the combined efficacy is not capped
EfficaciteTotale_SansPlafond(mesures) ==
    SumSeq([k \in 1..Len(mesures) |-> mesures[k].efficacite])

\* min(0.95, sum(m['efficacite'] for m in mesures)), in hundredths
EfficaciteTotale(mesures) ==
    Min(95, SumSeq([k \in 1..Len(mesures) |-> mesures[k].efficacite]))

\* the dict built by lines 199-232, before it is stored
ResiduelDe(a, i) ==
    LET risque == a.risques[i]
        Assoc(m) == InList(m.id, risque.mesures_associees)
        mesures == SelectSeq(a.mesures_traitement, Assoc)
    IN  IF mesures = <<>>
        THEN [risque_id |-> risque.id, score_brut |-> risque.score_brut,
              score_residuel |-> risque.score_brut,
              niveau_residuel |-> risque.niveau_brut,
              reduction |-> 0, mesures_appliquees |-> <<>>]
        ELSE LET efficacite_totale == EfficaciteTotale(mesures)
                 \* reduction, in hundredths of a point
                 reduction == risque.score_brut * efficacite_totale
                 score_residuel ==
                     Max(1, PyRound(risque.score_brut * 100 - reduction, 100))
             IN  [risque_id |-> risque.id, score_brut |-> risque.score_brut,
                  score_residuel |-> score_residuel,
                  niveau_residuel |-> W5_get_risk_level(score_residuel),
                  reduction |-> reduction,
                  \* round(reduction / score_brut * 100, 1), in percent
                  reduction_pct |-> (reduction * 100) \div (risque.score_brut * 100),
                  mesures_appliquees |->
                      [k \in 1..Len(mesures) |-> mesures[k].id]]

\* (mutant) the new entry is appended without removing the previous one
StoreResiduel_SansRemplacement(residuels, entree) == Append(residuels, entree)

\* lines 234-241: replace the first entry of that risk, append the new one
StoreResiduel(residuels, entree) ==
    LET k == FirstOf({i \in 1..Len(residuels) :
                         residuels[i].risque_id = entree.risque_id})
    IN  Append(IF k # 0 THEN RemoveAt(residuels, k) ELSE residuels, entree)

calculate_risque_residuel(a, risque_id) ==
    LET i == FindRisque(a, risque_id)
    IN  IF i = 0 THEN [raised |-> TRUE, a |-> a]
        ELSE LET rr == ResiduelDe(a, i)
             IN  [raised |-> FALSE,
                  a |-> [a EXCEPT !.risques_residuels = StoreResiduel(@, rr)],
                  ret |-> rr]

\* (mutant) the quarterly review starts above 3
_calculate_review_date_Strict(score_residuel) ==
    IF score_residuel > 3 THEN 90 ELSE 365

\* days until the review
_calculate_review_date(score_residuel) ==
    IF score_residuel >= 3 THEN 90 ELSE 365

\* ret is the acceptance record; risque_res is what the nested
\* calculate_risque_residuel call returned
accept_risque(a, risque_id) ==
    LET i == FindRisque(a, risque_id)
    IN  IF i = 0 THEN [raised |-> TRUE, a |-> a]
        ELSE LET c == calculate_risque_residuel(a, risque_id)
                 acceptation ==
                     [risque_id |-> risque_id,
                      score_residuel |-> c.ret.score_residuel,
                      niveau_residuel |-> c.ret.niveau_residuel,
                      date_revue |-> _calculate_review_date(c.ret.score_residuel)]
             IN  [raised |-> FALSE,
                  a |-> [c.a EXCEPT !.risques_acceptes = Append(@, acceptation),
                                    !.risques[i].statut = "Accepté"],
                  ret |-> acceptation,
                  risque_res |-> c.ret]

\* measures of the plan's timeline (mesures[:10])
TimelineMax == 10

\* (mutant) the cost is not negated in the sort key, so that among measures
\* covering as many risks the more expensive one comes first
MesuresPrioritaires_CoutDesc(mesures) ==
    LET Avant(t, x) ==
            \/ Len(t.risques_couverts) > Len(x.risques_couverts)
            \/ /\ Len(t.risques_couverts) = Len(x.risques_couverts)
               /\ t.cout_estime >= x.cout_estime
        Insert(t, x) ==
            LET n == Cardinality({k \in 1..Len(t) : Avant(t[k], x)})
            IN  SubSeq(t, 1, n) \o <<x>> \o SubSeq(t, n + 1, Len(t))
        F[i \in 0..Len(mesures)] ==
            IF i = 0 THEN <<>> ELSE Insert(F[i - 1], mesures[i])
    IN  F[Len(mesures)]

\* sorted(mesures, key=lambda m: (len(m['risques_couverts']),
\* -m['cout_estime']), reverse=True): descending on the key tuple, stable
MesuresPrioritaires(mesures) ==
    LET Avant(t, x) ==
            \/ Len(t.risques_couverts) > Len(x.risques_couverts)
            \/ /\ Len(t.risques_couverts) = Len(x.risques_couverts)
               /\ 0 - t.cout_estime >= 0 - x.cout_estime
        Insert(t, x) ==
            LET n == Cardinality({k \in 1..Len(t) : Avant(t[k], x)})
            IN  SubSeq(t, 1, n) \o <<x>> \o SubSeq(t, n + 1, Len(t))
        F[i \in 0..Len(mesures)] ==
            IF i = 0 THEN <<>> ELSE Insert(F[i - 1], mesures[i])
    IN  F[Len(mesures)]

\* (mutant) a lead time of exactly 90 or 180 days goes to the next phase
_create_phases_BornesExclues(mesures) ==
    LET Phase1(m) == m.delai_mise_en_oeuvre < 90
        Phase2(m) == ~Phase1(m) /\ m.delai_mise_en_oeuvre < 180
        Phase3(m) == ~Phase1(m) /\ ~Phase2(m)
        Ids(t) == [k \in 1..Len(t) |-> t[k].id]
    IN  << [mesures |-> Ids(SelectSeq(mesures, Phase1))],
           [mesures |-> Ids(SelectSeq(mesures, Phase2))],
           [mesures |-> Ids(SelectSeq(mesures, Phase3))] >>

_create_phases(mesures) ==
    LET Phase1(m) == m.delai_mise_en_oeuvre <= 90
        Phase2(m) == ~Phase1(m) /\ m.delai_mise_en_oeuvre <= 180
        Phase3(m) == ~Phase1(m) /\ ~Phase2(m)
        Ids(t) == [k \in 1..Len(t) |-> t[k].id]
    IN  << [mesures |-> Ids(SelectSeq(mesures, Phase1))],
           [mesures |-> Ids(SelectSeq(mesures, Phase2))],
           [mesures |-> Ids(SelectSeq(mesures, Phase3))] >>

\* fin_prevue is the number of days after the creation of the plan
_create_timeline(mesures) ==
    LET top == SubSeq(mesures, 1, Min(TimelineMax, Len(mesures)))
    IN  [k \in 1..Len(top) |->
            [mesure_id |-> top[k].id,
             fin_prevue |-> top[k].delai_mise_en_oeuvre,
             responsable |-> top[k].responsable]]

\* (mutant) a measure is entered under its owner only when the owner is new
_extract_responsabilites_Premiere(a) ==
    LET mesures == a.mesures_traitement
        owners == {mesures[k].responsable : k \in 1..Len(mesures)}
    IN  [resp \in owners |->
            LET k == FirstOf({j \in 1..Len(mesures) :
                                 mesures[j].responsable = resp})
            IN  [mesures_responsable |-> <<mesures[k].id>>,
                 budget_total |-> mesures[k].cout_estime]]

\* the dict owner -> measures and summed cost, filled in registration order
_extract_responsabilites(a) ==
    LET mesures == a.mesures_traitement
        owners == {mesures[k].responsable : k \in 1..Len(mesures)}
    IN  [resp \in owners |->
            LET De(m) == m.responsable = resp
                siennes == SelectSeq(mesures, De)
            IN  [mesures_responsable |-> [k \in 1..Len(siennes) |-> siennes[k].id],
                 budget_total |->
                     SumSeq([k \in 1..Len(siennes) |-> siennes[k].cout_estime])]]

create_plan_traitement(a) ==
    LET mesures_prioritaires == MesuresPrioritaires(a.mesures_traitement)
        plan == [budget_total |-> a.budget_estime,
                 nombre_mesures |-> Len(a.mesures_traitement),
                 nombre_risques |-> Len(a.risques),
                 phases |-> _create_phases(mesures_prioritaires),
                 timeline |-> _create_timeline(mesures_prioritaires),
                 responsabilites |-> _extract_responsabilites(a)]
    IN  [raised |-> FALSE, a |-> [a EXCEPT !.plan_traitement = plan],
         ret |-> plan]

\* the counts of Workshop5.get_statistics (the return value without
\* repartition_options, roi_estime and taux_traitement)
W5_get_statistics(a) ==
    LET risques_critiques ==
            {i \in 1..Len(a.risques) : a.risques[i].niveau_brut = "Critique"}
        risques_traites ==
            {i \in 1..Len(a.risques) : a.risques[i].option_traitement # "None"}
    IN  [raised |-> FALSE, a |-> a,
         ret |-> [nb_risques_total |-> Len(a.risques),
                  nb_risques_critiques |-> Cardinality(risques_critiques),
                  nb_risques_traites |-> Cardinality(risques_traites),
                  nb_mesures |-> Len(a.mesures_traitement),
                  nb_risques_acceptes |-> Len(a.risques_acceptes),
                  budget_total |-> a.budget_estime]]

(***************************************************************************)
(* Workshop2 (src/modules/workshop2.py)                                    *)
(* capacite_globale is in tenths: 33 is 3.3.                               *)
(***************************************************************************)
W2Init ==
    [sources_risque |-> <<>>, objectifs_vises |-> <<>>,
     cartographie_sr_ov |-> <<>>, scenarios_strategiques |-> <<>>]

_get_capacite_level(capacite) ==
    IF capacite <= 15 THEN "Faible"
    ELSE IF capacite <= 25 THEN "Moyen"
    ELSE IF capacite <= 35 THEN "Fort"
    ELSE "Très fort"

add_source_risque(a, ressources, determination, competences) ==
    IF ~(\A x \in {ressources, determination, competences} : 1 <= x /\ x <= 4)
    THEN [raised |-> TRUE, a |-> a]
    ELSE LET \* round((ressources + determination + competences) / 3, 1)
             capacite_globale ==
                 PyRound(10 * (ressources + determination + competences), 3)
             sr == [id |-> Len(a.sources_risque) + 1,
                    ressources |-> ressources,
                    determination |-> determination,
                    competences |-> competences,
                    capacite_globale |-> capacite_globale,
                    niveau |-> _get_capacite_level(capacite_globale)]
         IN  [raised |-> FALSE,
              a |-> [a EXCEPT !.sources_risque = Append(@, sr)]]

add_objectif_vise(a, impact_potentiel) ==
    IF ~(1 <= impact_potentiel /\ impact_potentiel <= 4)
    THEN [raised |-> TRUE, a |-> a]
    ELSE LET ov == [id |-> Len(a.objectifs_vises) + 1,
                    impact_potentiel |-> impact_potentiel]
         IN  [raised |-> FALSE,
              a |-> [a EXCEPT !.objectifs_vises = Append(@, ov)]]

\* (mutant) the pertinence is left out of the score
_calculate_gravite_SansPertinence(capacite_sr, impact_ov, pertinence) ==
    LET score == capacite_sr * impact_ov
    IN  IF score <= 150 THEN 1
        ELSE IF score <= 250 THEN 2
        ELSE IF score <= 350 THEN 3
        ELSE 4

\* score = (capacite_sr * pertinence * impact_ov) / 10, compared in hundredths
_calculate_gravite(capacite_sr, impact_ov, pertinence) ==
    LET score == capacite_sr * pertinence * impact_ov
    IN  IF score <= 150 THEN 1
        ELSE IF score <= 250 THEN 2
        ELSE IF score <= 350 THEN 3
        ELSE 4

FindSource(a, sr_id) ==
    FirstOf({i \in 1..Len(a.sources_risque) : a.sources_risque[i].id = sr_id})

FindObjectif(a, ov_id) ==
    FirstOf({j \in 1..Len(a.objectifs_vises) : a.objectifs_vises[j].id = ov_id})

\* (mutant) an unknown reference raises, as in Workshop5
map_sr_to_ov_Leve(a, sr_id, ov_id, pertinence) ==
    IF ~(1 <= pertinence /\ pertinence <= 4)
    THEN [raised |-> TRUE, a |-> a, ret |-> "None"]
    ELSE IF FindSource(a, sr_id) = 0 \/ FindObjectif(a, ov_id) = 0
    THEN [raised |-> TRUE, a |-> a, ret |-> "None"]
    ELSE LET relation ==
                 [sr_id |-> sr_id, ov_id |-> ov_id, pertinence |-> pertinence,
                  gravite_scenario |->
                      _calculate_gravite(
                          a.sources_risque[FindSource(a, sr_id)].capacite_globale,
                          a.objectifs_vises[FindObjectif(a, ov_id)].impact_potentiel,
                          pertinence)]
         IN  [raised |-> FALSE,
              a |-> [a EXCEPT !.cartographie_sr_ov = Append(@, relation)],
              ret |-> "relation"]

\* ret is "{}" for the empty dict, "relation" for the appended entry
map_sr_to_ov(a, sr_id, ov_id, pertinence) ==
    IF ~(1 <= pertinence /\ pertinence <= 4)
    THEN [raised |-> TRUE, a |-> a, ret |-> "None"]
    ELSE LET i == FindSource(a, sr_id)
             j == FindObjectif(a, ov_id)
         IN  IF i = 0 \/ j = 0 THEN [raised |-> FALSE, a |-> a, ret |-> "{}"]
             ELSE LET gravite_scenario ==
                          _calculate_gravite(a.sources_risque[i].capacite_globale,
                                             a.objectifs_vises[j].impact_potentiel,
                                             pertinence)
                      relation == [sr_id |-> sr_id, ov_id |-> ov_id,
                                   pertinence |-> pertinence,
                                   gravite_scenario |-> gravite_scenario]
                  IN  [raised |-> FALSE,
                       a |-> [a EXCEPT !.cartographie_sr_ov = Append(@, relation)],
                       ret |-> "relation"]

W2_get_risk_level(gravite) ==
    IF gravite = 1 THEN "Faible"
    ELSE IF gravite = 2 THEN "Modéré"
    ELSE IF gravite = 3 THEN "Élevé"
    ELSE IF gravite = 4 THEN "Critique"
    ELSE "Indéterminé"

\* (mutant) ties come out in reverse order, as sorted ascending then reversed
SortParGraviteDesc_Instable(s) ==
    LET Insert(t, x) ==
            LET before == {k \in 1..Len(t) : t[k].gravite > x.gravite}
                n == Cardinality(before)
            IN  SubSeq(t, 1, n) \o <<x>> \o SubSeq(t, n + 1, Len(t))
        F[i \in 0..Len(s)] == IF i = 0 THEN <<>> ELSE Insert(F[i - 1], s[i])
    IN  F[Len(s)]

\* list.sort(key=lambda x: x['gravite'], reverse=True): stable, so elements
\* of equal gravity keep their relative order
SortParGraviteDesc(s) ==
    LET Insert(t, x) ==
            LET before == {k \in 1..Len(t) : t[k].gravite >= x.gravite}
                n == Cardinality(before)
            IN  SubSeq(t, 1, n) \o <<x>> \o SubSeq(t, n + 1, Len(t))
        F[i \in 0..Len(s)] == IF i = 0 THEN <<>> ELSE Insert(F[i - 1], s[i])
    IN  F[Len(s)]

\* the loop of lines 166-186, started from the list `debut`
ScenariosDe(a, debut) ==
    LET carto == a.cartographie_sr_ov
        F[k \in 0..Len(carto)] ==
            IF k = 0 THEN debut
            ELSE LET relation == carto[k]
                     i == FindSource(a, relation.sr_id)
                     j == FindObjectif(a, relation.ov_id)
                 IN  IF i # 0 /\ j # 0
                     THEN Append(F[k - 1],
                                 [id |-> Len(F[k - 1]) + 1,
                                  gravite |-> relation.gravite_scenario,
                                  niveau_risque |->
                                      W2_get_risk_level(relation.gravite_scenario),
                                  pertinence |-> relation.pertinence,
                                  capacite_sr |-> a.sources_risque[i].capacite_globale,
                                  impact_ov |-> a.objectifs_vises[j].impact_potentiel])
                     ELSE F[k - 1]
    IN  F[Len(carto)]

\* (mutant) the list is not cleared before it is rebuilt
generate_scenarios_strategiques_Cumul(a) ==
    LET liste == SortParGraviteDesc(ScenariosDe(a, a.scenarios_strategiques))
    IN  [raised |-> FALSE,
         a |-> [a EXCEPT !.scenarios_strategiques = liste],
         ret |-> liste]

generate_scenarios_strategiques(a) ==
    LET liste == SortParGraviteDesc(ScenariosDe(a, <<>>))
    IN  [raised |-> FALSE,
         a |-> [a EXCEPT !.scenarios_strategiques = liste],
         ret |-> liste]

\* list[:n]
PySlicePrefix(s, n) ==
    IF n >= 0 THEN SubSeq(s, 1, Min(n, Len(s)))
    ELSE SubSeq(s, 1, Max(0, Len(s) + n))

\* the `if not scenarios_strategiques: generate_scenarios_strategiques()` of
\* the readers (lines 210-211, 217-218)
GenerateIfEmpty(a) ==
    IF a.scenarios_strategiques = <<>>
    THEN generate_scenarios_strategiques(a).a
    ELSE a

get_top_scenarios(a, n) ==
    LET b == GenerateIfEmpty(a)
    IN  [raised |-> FALSE, a |-> b,
         ret |-> PySlicePrefix(b.scenarios_strategiques, n)]

get_statistics(a) ==
    LET b == GenerateIfEmpty(a)
        gravite_counts ==
            [g \in 1..4 |->
                Cardinality({k \in 1..Len(b.scenarios_strategiques) :
                                b.scenarios_strategiques[k].gravite = g})]
    IN  [raised |-> FALSE, a |-> b,
         ret |-> [nb_sources_risque |-> Len(b.sources_risque),
                  nb_objectifs_vises |-> Len(b.objectifs_vises),
                  nb_scenarios_strategiques |-> Len(b.scenarios_strategiques),
                  repartition_gravite |-> gravite_counts,
                  scenarios_critiques |-> gravite_counts[4],
                  scenarios_eleves |-> gravite_counts[3],
                  scenarios_moderes |-> gravite_counts[2],
                  scenarios_faibles |-> gravite_counts[1]]]

\* (mutant) the mapping entries are counted instead of the distinct ids
_calculate_coverage_rate_Relations(a, type_entity) ==
    LET total == IF type_entity = "sources" THEN Len(a.sources_risque)
                 ELSE Len(a.objectifs_vises)
    IN  IF total = 0 THEN 0
        ELSE PyRound(1000 * Len(a.cartographie_sr_ov), total)

\* round((len(covered_ids) / total) * 100, 1), in tenths of a percent
_calculate_coverage_rate(a, type_entity) ==
    LET carto == a.cartographie_sr_ov
        total == IF type_entity = "sources" THEN Len(a.sources_risque)
                 ELSE Len(a.objectifs_vises)
        covered_ids ==
            IF type_entity = "sources"
            THEN {carto[k].sr_id : k \in 1..Len(carto)}
            ELSE {carto[k].ov_id : k \in 1..Len(carto)}
    IN  IF total = 0 THEN 0
        ELSE PyRound(1000 * Cardinality(covered_ids), total)

get_summary(a) ==
    LET stats == get_statistics(a)
        top == get_top_scenarios(stats.a, 3)
    IN  [raised |-> FALSE, a |-> top.a,
         ret |-> [statistiques |-> stats.ret,
                  top_scenarios |-> top.ret,
                  taux_couverture_sr |-> _calculate_coverage_rate(top.a, "sources"),
                  taux_couverture_ov |-> _calculate_coverage_rate(top.a, "objectifs")]]

(***************************************************************************)
(* Workshop3 (src/modules/workshop3.py)                                    *)
(* score_risque_tiers is in tenths.                                        *)
(***************************************************************************)
W3Init ==
    [parties_prenantes |-> <<>>, ecosysteme |-> <<>>,
     scenarios_strategiques_enrichis |-> <<>>, chemins_attaque |-> <<>>]

\* round(n / d, 0) for any integer n and d > 0, ties to even
PyRoundInt(n, d) == IF n >= 0 THEN PyRound(n, d) ELSE 0 - PyRound(0 - n, d)

_get_criticite_level(score) ==
    IF score <= 15 THEN "Faible"
    ELSE IF score <= 25 THEN "Modéré"
    ELSE IF score <= 35 THEN "Élevé"
    ELSE "Critique"

\* (mutant) the sum of the ratings is not divided by 3
add_partie_prenante_SansMoyenne(a, dependance, exposition, confiance, maturite) ==
    LET score_risque == 10 * (dependance + exposition - maturite)
        pp == [id |-> Len(a.parties_prenantes) + 1,
               dependance |-> dependance, exposition |-> exposition,
               confiance |-> confiance, maturite |-> maturite,
               score_risque_tiers |-> score_risque,
               niveau_criticite |-> _get_criticite_level(score_risque)]
    IN  [raised |-> FALSE,
         a |-> [a EXCEPT !.parties_prenantes = Append(@, pp)]]

add_partie_prenante(a, dependance, exposition, confiance, maturite) ==
    LET \* round((dependance + exposition - maturite) / 3, 1)
        score_risque == PyRoundInt(10 * (dependance + exposition - maturite), 3)
        pp == [id |-> Len(a.parties_prenantes) + 1,
               dependance |-> dependance, exposition |-> exposition,
               confiance |-> confiance, maturite |-> maturite,
               score_risque_tiers |-> score_risque,
               niveau_criticite |-> _get_criticite_level(score_risque)]
    IN  [raised |-> FALSE,
         a |-> [a EXCEPT !.parties_prenantes = Append(@, pp)]]

get_parties_prenantes_critiques(a) ==
    [raised |-> FALSE, a |-> a,
     ret |-> SelectSeq(a.parties_prenantes,
                       LAMBDA pp : pp.niveau_criticite \in {"Élevé", "Critique"})]

\* ecosysteme is {} until map_ecosysteme is called
W3_get_statistics(a) ==
    LET pp_critiques == get_parties_prenantes_critiques(a).ret
    IN  [raised |-> FALSE, a |-> a,
         ret |-> [nb_parties_prenantes |-> Len(a.parties_prenantes),
                  nb_pp_critiques |-> Len(pp_critiques),
                  nb_scenarios_enrichis |-> Len(a.scenarios_strategiques_enrichis),
                  nb_chemins_attaque |-> Len(a.chemins_attaque),
                  nb_points_entree |->
                      IF a.ecosysteme = <<>> THEN 0
                      ELSE Len(a.ecosysteme.points_entree)]]

_calculate_complexity(etapes) ==
    IF Len(etapes) <= 2 THEN "Faible"
    ELSE IF Len(etapes) <= 4 THEN "Moyenne"
    ELSE "Élevée"

\* (mutant) the id is numbered from the length before the append
add_chemin_attaque_BaseZero(a, etapes) ==
    LET chemin == [id |-> Len(a.chemins_attaque),
                   etapes |-> etapes,
                   nombre_etapes |-> Len(etapes),
                   complexite |-> _calculate_complexity(etapes)]
    IN  [raised |-> FALSE,
         a |-> [a EXCEPT !.chemins_attaque = Append(@, chemin)]]

add_chemin_attaque(a, etapes) ==
    LET chemin == [id |-> Len(a.chemins_attaque) + 1,
                   etapes |-> etapes,
                   nombre_etapes |-> Len(etapes),
                   complexite |-> _calculate_complexity(etapes)]
    IN  [raised |-> FALSE,
         a |-> [a EXCEPT !.chemins_attaque = Append(@, chemin)]]

(***************************************************************************)
(* Workshop4 (src/modules/workshop4.py)                                    *)
(***************************************************************************)
W4Init ==
    [scenarios_operationnels |-> <<>>, actions_elementaires |-> <<>>,
     mesures_existantes |-> <<>>, synthese_risques |-> <<>>]

\* score = ((5 - difficulte) + (5 - detectabilite)) / 2, compared doubled
_calculate_vraisemblance_action(difficulte, detectabilite) ==
    LET score2 == (5 - difficulte) + (5 - detectabilite)
    IN  IF score2 <= 3 THEN 1
        ELSE IF score2 <= 5 THEN 2
        ELSE IF score2 <= 7 THEN 3
        ELSE 4

add_action_elementaire(a, difficulte, detectabilite) ==
    LET action == [id |-> Len(a.actions_elementaires) + 1,
                   difficulte |-> difficulte,
                   detectabilite |-> detectabilite,
                   vraisemblance_action |->
                       _calculate_vraisemblance_action(difficulte, detectabilite)]
    IN  [raised |-> FALSE,
         a |-> [a EXCEPT !.actions_elementaires = Append(@, action)]]

add_mesure_existante(a, efficacite, couverture) ==
    LET mesure == [id |-> Len(a.mesures_existantes) + 1,
                   efficacite |-> efficacite,
                   actions_couvertes |-> couverture]
    IN  [raised |-> FALSE,
         a |-> [a EXCEPT !.mesures_existantes = Append(@, mesure)]]

add_scenario_operationnel(a, actions) ==
    LET so == [id |-> Len(a.scenarios_operationnels) + 1,
               actions_elementaires |-> actions,
               vraisemblance |-> 0]
    IN  [raised |-> FALSE,
         a |-> [a EXCEPT !.scenarios_operationnels = Append(@, so)],
         ret |-> so]

FindScenario(a, scenario_id) ==
    FirstOf({i \in 1..Len(a.scenarios_operationnels) :
                a.scenarios_operationnels[i].id = scenario_id})

\* round(sum(vraisemblance_action) / len(actions)) over the registered
\* actions whose id is in the scenario's list; 0, and no update, when the
\* scenario is unknown or lists no registered action
calculate_vraisemblance_scenario(a, scenario_id) ==
    LET i == FindScenario(a, scenario_id)
    IN  IF i = 0 THEN [raised |-> FALSE, a |-> a, ret |-> 0]
        ELSE LET Listee(x) ==
                     InList(x.id, a.scenarios_operationnels[i].actions_elementaires)
                 actions == SelectSeq(a.actions_elementaires, Listee)
             IN  IF actions = <<>> THEN [raised |-> FALSE, a |-> a, ret |-> 0]
                 ELSE LET vraisemblance ==
                              PyRound(SumSeq([k \in 1..Len(actions) |->
                                                 actions[k].vraisemblance_action]),
                                      Len(actions))
                      IN  [raised |-> FALSE,
                           a |-> [a EXCEPT !.scenarios_operationnels[i].vraisemblance
                                               = vraisemblance],
                           ret |-> vraisemblance]

\* the (measure, position of action_ids) pairs of the double loop of lines
\* 204-208 whose test succeeds
Correspondances(a, action_ids) ==
    {<<m, j>> \in (1..Len(a.mesures_existantes)) \X (1..Len(action_ids)) :
        InList(action_ids[j], a.mesures_existantes[m].actions_couvertes)}

RECURSIVE SommeCorrespondances(_, _)
SommeCorrespondances(a, P) ==
    IF P = {} THEN 0
    ELSE LET p == CHOOSE x \in P : TRUE
         IN  a.mesures_existantes[p[1]].efficacite
                 + SommeCorrespondances(a, P \ {p})

\* (mutant) the reduction is not capped at 0.9
_calculate_risk_reduction_SansPlafond(a, action_ids) ==
    IF a.mesures_existantes = <<>> THEN [num |-> 0, den |-> 1]
    ELSE LET P == Correspondances(a, action_ids)
             actions_couvertes == {action_ids[p[2]] : p \in P}
             efficacite_totale == SommeCorrespondances(a, P)
         IN  IF actions_couvertes = {} THEN [num |-> 0, den |-> 1]
             ELSE [num |-> Cardinality(actions_couvertes) * efficacite_totale,
                   den |-> Len(action_ids) * Cardinality(actions_couvertes) * 100]

\* The reduction as the fraction num / den (efficacite is in hundredths):
\* couverture_pct * efficacite_moyenne
\*   = (len(actions_couvertes) / len(action_ids))
\*       * (efficacite_totale / len(actions_couvertes)), at most 0.9
_calculate_risk_reduction(a, action_ids) ==
    IF a.mesures_existantes = <<>> THEN [num |-> 0, den |-> 1]
    ELSE LET P == Correspondances(a, action_ids)
             actions_couvertes == {action_ids[p[2]] : p \in P}
             efficacite_totale == SommeCorrespondances(a, P)
         IN  IF actions_couvertes = {} THEN [num |-> 0, den |-> 1]
             ELSE LET num == Cardinality(actions_couvertes) * efficacite_totale
                      den == Len(action_ids) * Cardinality(actions_couvertes) * 100
                  IN  IF 10 * num > 9 * den THEN [num |-> 9, den |-> 10]
                      ELSE [num |-> num, den |-> den]

W4_get_risk_level(score) ==
    IF score <= 2 THEN "Faible"
    ELSE IF score <= 4 THEN "Acceptable"
    ELSE IF score <= 8 THEN "Modéré"
    ELSE IF score <= 12 THEN "Élevé"
    ELSE "Critique"

\* synthese_risques.sort(key=lambda x: x['risque_residuel'], reverse=True)
SortParResiduelDesc(s) ==
    LET Insert(t, x) ==
            LET n == Cardinality({k \in 1..Len(t) :
                                     t[k].risque_residuel >= x.risque_residuel})
            IN  SubSeq(t, 1, n) \o <<x>> \o SubSeq(t, n + 1, Len(t))
        F[i \in 0..Len(s)] == IF i = 0 THEN <<>> ELSE Insert(F[i - 1], s[i])
    IN  F[Len(s)]

\* the loop of lines 164-186 from the list `debut`: the assessment with the
\* likelihoods it computed, and the entries in scenario order;
\* reduction_pct is in tenths of a percent
SyntheseDe(a, gravite_base, debut) ==
    LET F[k \in 0..Len(a.scenarios_operationnels)] ==
            IF k = 0 THEN [a |-> a, liste |-> debut]
            ELSE LET avant == F[k - 1].a
                     b == IF avant.scenarios_operationnels[k].vraisemblance = 0
                          THEN calculate_vraisemblance_scenario(
                                   avant, avant.scenarios_operationnels[k].id).a
                          ELSE avant
                     scenario == b.scenarios_operationnels[k]
                     risque_brut == gravite_base * scenario.vraisemblance
                     reduction ==
                         _calculate_risk_reduction(b, scenario.actions_elementaires)
                     risque_residuel ==
                         Max(1, PyRoundInt(
                                    risque_brut * (reduction.den - reduction.num),
                                    reduction.den))
                     risque == [scenario_id |-> scenario.id,
                                gravite |-> gravite_base,
                                vraisemblance |-> scenario.vraisemblance,
                                risque_brut |-> risque_brut,
                                risque_residuel |-> risque_residuel,
                                niveau |-> W4_get_risk_level(risque_residuel),
                                reduction_pct |->
                                    PyRoundInt(1000 * reduction.num, reduction.den)]
                 IN  [a |-> b, liste |-> Append(F[k - 1].liste, risque)]
    IN  F[Len(a.scenarios_operationnels)]

\* (mutant) the synthesis list is not emptied first
synthetize_risks_Cumul(a, gravite_base) ==
    LET r == SyntheseDe(a, gravite_base, a.synthese_risques)
        liste == SortParResiduelDesc(r.liste)
    IN  [raised |-> FALSE, a |-> [r.a EXCEPT !.synthese_risques = liste],
         ret |-> liste]

synthetize_risks(a, gravite_base) ==
    LET r == SyntheseDe(a, gravite_base, <<>>)
        liste == SortParResiduelDesc(r.liste)
    IN  [raised |-> FALSE, a |-> [r.a EXCEPT !.synthese_risques = liste],
         ret |-> liste]

(***************************************************************************)
(* RiskCalculator (src/modules/risk_calculator.py)                         *)
(***************************************************************************)
RISK_MATRIX == << <<1, 1, 2, 2>>, <<1, 2, 2, 3>>, <<2, 2, 3, 4>>, <<2, 3, 4, 4>> >>

calculate_risk_level(gravite, vraisemblance) ==
    IF ~(1 <= gravite /\ gravite <= 4 /\ 1 <= vraisemblance /\ vraisemblance <= 4)
    THEN [raised |-> TRUE]
    ELSE LET score == RISK_MATRIX[gravite][vraisemblance]
             levels == <<"Faible", "Acceptable", "Modéré", "Critique">>
         IN  [raised |-> FALSE, score |-> score, niveau |-> levels[score]]

\* (mutant) the floor of 1 is left out
calculate_residual_risk_SansPlancher(risque_initial, efficacite_mesures) ==
    IF ~(0 <= efficacite_mesures /\ efficacite_mesures <= 100)
    THEN [raised |-> TRUE]
    ELSE IF ~(1 <= risque_initial /\ risque_initial <= 4)
    THEN [raised |-> TRUE]
    ELSE LET risque_residuel ==
                 PyRound(risque_initial * (100 - efficacite_mesures), 100)
         IN  [raised |-> FALSE, score |-> risque_residuel,
              niveau |-> IF risque_residuel \in 1..4
                         THEN <<"Faible", "Acceptable", "Modéré", "Critique">>
                                  [risque_residuel]
                         ELSE "KeyError",
              reduction_pct |-> 10 * efficacite_mesures]

\* efficacite_mesures is in hundredths, reduction_pct in tenths of a percent;
\* risque_initial - reduction is risque_initial * (100 - efficacite) / 100
calculate_residual_risk(risque_initial, efficacite_mesures) ==
    IF ~(0 <= efficacite_mesures /\ efficacite_mesures <= 100)
    THEN [raised |-> TRUE]
    ELSE IF ~(1 <= risque_initial /\ risque_initial <= 4)
    THEN [raised |-> TRUE]
    ELSE LET risque_residuel ==
                 Max(1, PyRound(risque_initial * (100 - efficacite_mesures), 100))
             levels == <<"Faible", "Acceptable", "Modéré", "Critique">>
         IN  [raised |-> FALSE, score |-> risque_residuel,
              niveau |-> levels[risque_residuel],
              reduction_pct |->
                  PyRound(1000 * risque_initial * efficacite_mesures,
                          100 * risque_initial)]

(***************************************************************************)
(* save and load (the same two methods in workshop1.py .. workshop5.py,    *)
(* `atelier` being the number in the file name).  A JSON document is the   *)
(* set of the members <<key, value>> of the top-level object; the values   *)
(* the records hold (numbers, strings, lists, dicts with string keys) are  *)
(* written and read back as they are.                                      *)
(***************************************************************************)
\* (mutant) the workshop is left out of the file name
Chemin_SansAtelier(filename, atelier) == <<filename, 0>>

\* f"data/assessments/{filename}_atelier{atelier}.json"
Chemin(filename, atelier) == <<filename, atelier>>

json_dump(obj) == {<<k, obj[k]>> : k \in DOMAIN obj}

json_load(document) ==
    [k \in {m[1] : m \in document} |->
        (CHOOSE m \in document : m[1] = k)[2]]

\* open(filepath, 'w') creates or truncates the file; the whole record is
\* written
save(fs, a, filename, atelier) ==
    LET filepath == Chemin(filename, atelier)
    IN  [raised |-> FALSE,
         fs |-> [p \in DOMAIN fs \cup {filepath} |->
                    IF p = filepath THEN json_dump(a) ELSE fs[p]],
         ret |-> filepath]

\* open(filepath, 'r') raises FileNotFoundError before anything is assigned
load(fs, a, filename, atelier) ==
    LET filepath == Chemin(filename, atelier)
    IN  IF filepath \notin DOMAIN fs THEN [raised |-> TRUE, a |-> a]
        ELSE [raised |-> FALSE, a |-> json_load(fs[filepath])]

(***************************************************************************)
(* The calls as actions.  `max` bounds the number of calls of a run; the   *)
(* arguments are drawn from the sets each specification passes.            *)
(***************************************************************************)
\* The outcome of the most recent call: the method and whether it raised
\* ("raised"), returned a falsy value ("False", "{}") or succeeded ("ok").
NoCall == [op |-> "init", res |-> "ok"]

Call(op, res) == [op |-> op, res |-> res]

Outcome(r) == IF r.raised THEN "raised" ELSE "ok"

Tick(max) == appels < max /\ appels' = appels + 1

\* calculs: for each risk id, the number of residual computations made for
\* it and the result of the most recent one
Record(c, entree) ==
    LET old == {e \in c : e.risque_id = entree.risque_id}
        n == IF old = {} THEN 0 ELSE (CHOOSE e \in old : TRUE).n
    IN  (c \ old) \cup {[risque_id |-> entree.risque_id, n |-> n + 1,
                         entree |-> entree]}

AddRisque(max, Ids, NotesIn) ==
    /\ Tick(max)
    /\ \E id \in Ids, n \in NotesIn :
         LET r == add_risque(a5, id, n[1], n[2])
         IN  /\ a5' = r.a
             /\ last' = Call("add_risque", Outcome(r))
    /\ UNCHANGED <<fichiers, a1, a2, a3, a4, calculs, args>>

DefineTraitement(max, Ids, OptionsIn) ==
    /\ Tick(max)
    /\ \E id \in Ids, o \in OptionsIn :
         LET r == define_traitement(a5, id, o)
         IN  /\ a5' = r.a
             /\ last' = Call("define_traitement", Outcome(r))
    /\ UNCHANGED <<fichiers, a1, a2, a3, a4, calculs, args>>

AddMesureTraitement(max, CoutsIn, EfficacitesIn, DelaisIn, ResponsablesIn) ==
    /\ Tick(max)
    /\ \E c \in CoutsIn, e \in EfficacitesIn, d \in DelaisIn,
          resp \in ResponsablesIn :
         LET r == add_mesure_traitement(a5, c, e, d, resp)
         IN  /\ a5' = r.a
             /\ last' = Call("add_mesure_traitement", Outcome(r))
    /\ UNCHANGED <<fichiers, a1, a2, a3, a4, calculs, args>>

AssociateMesureToRisque(max, Ids, MesureIds) ==
    /\ Tick(max)
    /\ \E id \in Ids, m \in MesureIds :
         LET r == associate_mesure_to_risque(a5, id, m)
         IN  /\ a5' = r.a
             /\ last' = Call("associate_mesure_to_risque",
                             IF r.ret THEN "ok" ELSE "False")
    /\ UNCHANGED <<fichiers, a1, a2, a3, a4, calculs, args>>

CalculateRisqueResiduel(max, Ids) ==
    /\ Tick(max)
    /\ \E id \in Ids :
         LET r == calculate_risque_residuel(a5, id)
         IN  /\ a5' = r.a
             /\ last' = Call("calculate_risque_residuel", Outcome(r))
             /\ calculs' = IF r.raised THEN calculs ELSE Record(calculs, r.ret)
    /\ UNCHANGED <<fichiers, a1, a2, a3, a4, args>>

AcceptRisque(max, Ids) ==
    /\ Tick(max)
    /\ \E id \in Ids :
         LET r == accept_risque(a5, id)
         IN  /\ a5' = r.a
             /\ last' = Call("accept_risque", Outcome(r))
             /\ calculs' = IF r.raised THEN calculs
                           ELSE Record(calculs, r.risque_res)
    /\ UNCHANGED <<fichiers, a1, a2, a3, a4, args>>

\* the state after the five workshops are constructed
Init ==
    /\ a1 = W1Init
    /\ a2 = W2Init
    /\ a3 = W3Init
    /\ a4 = W4Init
    /\ a5 = W5Init
    /\ fichiers = EmptyDict
    /\ last = NoCall
    /\ calculs = {}
    /\ args = <<>>
    /\ appels = 0

(***************************************************************************)
(* Spec: a Workshop5 session.                                              *)
(***************************************************************************)
RisqueIds == {"R1", "R2"}

\* (gravite, vraisemblance) arguments: in range, out of range and accepted
\* by the list indexing, out of range and raising
Notes == {<<2, 3>>, <<0, 1>>, <<3, 5>>}

Options == {"Atténuation", "Acceptation", "Aucune"}

\* efficacite arguments, in hundredths
Efficacites == {70, 150}

Couts == {1000}

Delais == {45}

Responsables == {"RSSI"}

Next ==
    \/ AddRisque(MaxAppels, RisqueIds, Notes)
    \/ DefineTraitement(MaxAppels, RisqueIds, Options)
    \/ AddMesureTraitement(MaxAppels, Couts, Efficacites, Delais, Responsables)
    \/ AssociateMesureToRisque(MaxAppels, RisqueIds, 1..MaxMesureId)
    \/ CalculateRisqueResiduel(MaxAppels, RisqueIds)
    \/ AcceptRisque(MaxAppels, RisqueIds)

Spec == Init /\ [][Next]_vars

(***************************************************************************)
(* Properties of a Workshop5 session (Spec)                                *)
(***************************************************************************)
Rang(statut) ==
    IF statut = "Non traité" THEN 0
    ELSE IF statut = "Stratégie définie" THEN 1
    ELSE 2

Connu(id) == \E i \in 1..Len(a5.risques) : a5.risques[i].id = id

Residuels == {a5.risques_residuels[k] : k \in 1..Len(a5.risques_residuels)}

\* C1: no call moves the status of a risk of the register backward in the
\* order 'Non traité' < 'Stratégie définie' < 'Accepté' (the register is
\* append-only, so position i is the same risk before and after the call).
C1_StatutMonotone ==
    [][\A i \in 1..Len(a5.risques) :
          Rang(a5'.risques[i].statut) >= Rang(a5.risques[i].statut)]_vars

\* C4: risques_residuels holds at most one entry per risk id, and its
\* entries are exactly the most recent residual computed for each id.
C4_UnResiduelParRisque ==
    /\ \A i, j \in 1..Len(a5.risques_residuels) :
          a5.risques_residuels[i].risque_id = a5.risques_residuels[j].risque_id
              => i = j
    /\ Residuels = {c.entree : c \in calculs}

\* C4 witness: a second computation for a risk changed its entry (a measure
\* was associated in between) while another risk keeps its own entry.
C4_Witness ==
    /\ last.op = "calculate_risque_residuel" /\ last.res = "ok"
    /\ \E c \in calculs :
          /\ c.n >= 2
          /\ c.entree.mesures_appliquees # <<>>
          /\ c.entree \in Residuels

\* C7: with a risk id absent from the register, define_traitement,
\* calculate_risque_residuel and accept_risque raise and leave the whole
\* assessment as it was; so does define_traitement with an option outside
\* the four valid ones, whatever the id.
C7_RisqueInconnuEchoue ==
    \A id \in RisqueIds, o \in Options :
        /\ ~Connu(id) =>
              /\ define_traitement(a5, id, o).raised
              /\ define_traitement(a5, id, o).a = a5
              /\ calculate_risque_residuel(a5, id).raised
              /\ calculate_risque_residuel(a5, id).a = a5
              /\ accept_risque(a5, id).raised
              /\ accept_risque(a5, id).a = a5
        /\ o \notin {"Atténuation", "Transfert", "Évitement", "Acceptation"} =>
              /\ define_traitement(a5, id, o).raised
              /\ define_traitement(a5, id, o).a = a5

\* C7 witness: one of the three calls has just raised on a register that
\* holds a risk, a measure and a residual entry.
C7_Witness ==
    /\ last.op \in {"define_traitement", "calculate_risque_residuel",
                    "accept_risque"}
    /\ last.res = "raised"
    /\ a5.risques # <<>>
    /\ a5.risques_residuels # <<>>
    /\ \E id \in RisqueIds : ~Connu(id)

\* C9: every risk of the register has its gravity and its likelihood in
\* 1..4 (add_risque rejects anything else).
C9_NotesDansEchelle ==
    \A i \in 1..Len(a5.risques) :
        /\ a5.risques[i].gravite \in 1..4
        /\ a5.risques[i].vraisemblance \in 1..4

\* C13: the risk-measure link is bidirectional and duplicate-free: for every
\* risk r and measure m, m.id is in r.mesures_associees exactly when r.id is
\* in m.risques_couverts, no id occurs twice in either list, and
\* associate_mesure_to_risque with an unknown risk or measure id returns
\* False and changes nothing.
C13_LienBidirectionnel ==
    /\ \A i \in 1..Len(a5.risques), j \in 1..Len(a5.mesures_traitement) :
          InList(a5.mesures_traitement[j].id, a5.risques[i].mesures_associees)
              <=> InList(a5.risques[i].id, a5.mesures_traitement[j].risques_couverts)
    /\ \A i \in 1..Len(a5.risques) :
          \A k, l \in 1..Len(a5.risques[i].mesures_associees) :
              a5.risques[i].mesures_associees[k] = a5.risques[i].mesures_associees[l]
                  => k = l
    /\ \A j \in 1..Len(a5.mesures_traitement) :
          \A k, l \in 1..Len(a5.mesures_traitement[j].risques_couverts) :
              a5.mesures_traitement[j].risques_couverts[k]
                  = a5.mesures_traitement[j].risques_couverts[l] => k = l
    /\ \A id \in RisqueIds, m \in 1..MaxMesureId :
          (~Connu(id) \/ m > Len(a5.mesures_traitement)) =>
              /\ ~associate_mesure_to_risque(a5, id, m).ret
              /\ associate_mesure_to_risque(a5, id, m).a = a5

\* C25: a risk reaches 'Accepté' only from 'Stratégie définie': no call
\* moves a risk that is 'Non traité' (or that it has just registered) to
\* 'Accepté', and every risk that is 'Accepté' has a treatment option.
C25_CycleDeVie ==
    [][\A i \in 1..Len(a5'.risques) :
          a5'.risques[i].statut = "Accepté" =>
              /\ i <= Len(a5.risques)
              /\ a5.risques[i].statut \in {"Stratégie définie", "Accepté"}
              /\ a5'.risques[i].option_traitement # "None"]_vars

\* C26: the acceptance register holds one record per accepted risk: its
\* length, which get_statistics reports as nb_risques_acceptes, is the
\* number of risks whose status is 'Accepté', and no risk id has two
\* records.
C26_UneAcceptationParRisque ==
    LET acceptes == {i \in 1..Len(a5.risques) : a5.risques[i].statut = "Accepté"}
    IN  /\ W5_get_statistics(a5).ret.nb_risques_acceptes = Cardinality(acceptes)
        /\ Len(a5.risques_acceptes) = Cardinality(acceptes)
        /\ \A k, l \in 1..Len(a5.risques_acceptes) :
              a5.risques_acceptes[k].risque_id = a5.risques_acceptes[l].risque_id
                  => k = l

\* C28: no two risks of the register share an id, so a call on an id acts
\* on the one risk carrying it.
C28_IdsRisquesUniques ==
    \A i, j \in 1..Len(a5.risques) :
        a5.risques[i].id = a5.risques[j].id => i = j

(***************************************************************************)
(* SpecMatrice: the risk matrix on every pair of arguments.  Init draws    *)
(* the pair; the calls are RiskCalculator.calculate_risk_level and         *)
(* Workshop5.add_risque with that pair.  In this specification calculs     *)
(* holds the values calculate_risk_level returned.                         *)
(***************************************************************************)
\* arguments tried for gravite and vraisemblance
Echelle == -4..5

InitMatrice ==
    /\ a1 = W1Init
    /\ a2 = W2Init
    /\ a3 = W3Init
    /\ a4 = W4Init
    /\ a5 = W5Init
    /\ fichiers = EmptyDict
    /\ last = NoCall
    /\ calculs = {}
    /\ args \in [gravite : Echelle, vraisemblance : Echelle]
    /\ appels = 0

CalculateRiskLevel(max) ==
    /\ Tick(max)
    /\ LET r == calculate_risk_level(args.gravite, args.vraisemblance)
       IN  /\ calculs' = IF r.raised THEN calculs ELSE calculs \cup {r}
           /\ last' = Call("calculate_risk_level", Outcome(r))
    /\ UNCHANGED <<fichiers, a1, a2, a3, a4, a5, args>>

AddRisqueArgs(max) ==
    /\ AddRisque(max, {"R1"}, {<<args.gravite, args.vraisemblance>>})

NextMatrice ==
    \/ CalculateRiskLevel(MaxAppelsMatrice)
    \/ AddRisqueArgs(MaxAppelsMatrice)

SpecMatrice == InitMatrice /\ [][NextMatrice]_vars

\* C2: for gravity and likelihood in 1..4, calculate_risk_level returns the
\* cell of the 4x4 table (rows = gravity, columns = likelihood) with its
\* level, and add_risque stores that same score and level.
C2_MatriceEbios ==
    LET g == args.gravite
        v == args.vraisemblance
        table == << <<1, 1, 2, 2>>, <<1, 2, 2, 3>>, <<2, 2, 3, 4>>, <<2, 3, 4, 4>> >>
        niveaux == <<"Faible", "Acceptable", "Modéré", "Critique">>
    IN  (g \in 1..4 /\ v \in 1..4) =>
           /\ last.res = "ok"
           /\ \A c \in calculs :
                 c.score = table[g][v] /\ c.niveau = niveaux[table[g][v]]
           /\ \A i \in 1..Len(a5.risques) :
                 /\ a5.risques[i].score_brut = table[g][v]
                 /\ a5.risques[i].niveau_brut = niveaux[table[g][v]]
                 /\ \A c \in calculs :
                       /\ a5.risques[i].score_brut = c.score
                       /\ a5.risques[i].niveau_brut = c.niveau

\* C2 witness: both calls were made with (3, 2), which is 2, 'Acceptable'.
C2_Witness ==
    /\ args = [gravite |-> 3, vraisemblance |-> 2]
    /\ calculs = {[raised |-> FALSE, score |-> 2, niveau |-> "Acceptable"]}
    /\ a5.risques # <<>>
    /\ a5.risques[1].score_brut = 2

(***************************************************************************)
(* SpecResiduel: residual computations on one risk.  Init is the register  *)
(* after one add_risque("R1", g, v) with g, v in 1..4; measures on a grid  *)
(* of efficacies are then added, associated, and the residual computed.    *)
(***************************************************************************)
NotesEchelle == (1..4) \X (1..4)

\* efficacite arguments, in hundredths (0.0, 0.25, 0.5, 0.7, 1.0)
EfficacitesGrille == {0, 25, 50, 70, 100}

InitResiduel ==
    /\ a1 = W1Init
    /\ a2 = W2Init
    /\ a3 = W3Init
    /\ a4 = W4Init
    /\ \E n \in NotesEchelle : a5 = add_risque(W5Init, "R1", n[1], n[2]).a
    /\ fichiers = EmptyDict
    /\ last = Call("add_risque", "ok")
    /\ calculs = {}
    /\ args = <<>>
    /\ appels = 1

NextResiduel ==
    \/ AddMesureTraitement(MaxAppelsResiduel, Couts, EfficacitesGrille, Delais,
                           Responsables)
    \/ AssociateMesureToRisque(MaxAppelsResiduel, {"R1"}, 1..MaxMesureId)
    \/ CalculateRisqueResiduel(MaxAppelsResiduel, {"R1"})

SpecResiduel == InitResiduel /\ [][NextResiduel]_vars

\* the measures associated with a risk, and the sum of their efficacies
MesuresDe(r) ==
    {k \in 1..Len(a5.mesures_traitement) :
        \E j \in 1..Len(r.mesures_associees) :
            r.mesures_associees[j] = a5.mesures_traitement[k].id}

RECURSIVE SommeEfficacites(_)
SommeEfficacites(K) ==
    IF K = {} THEN 0
    ELSE LET k == CHOOSE x \in K : TRUE
         IN  a5.mesures_traitement[k].efficacite + SommeEfficacites(K \ {k})

\* C3: right after calculate_risque_residuel, the entry of the risk is
\* score_brut with no reduction when no measure is associated; otherwise
\* the efficacy used is min(0.95, sum of the associated efficacies) and
\* score_residuel is the integer nearest to score_brut * (1 - efficacy),
\* floored at 1; in every case 1 <= score_residuel <= score_brut.
C3_Residuel ==
    (last.op = "calculate_risque_residuel" /\ last.res = "ok") =>
        LET r == a5.risques[1]
            e == a5.risques_residuels[Len(a5.risques_residuels)]
            K == MesuresDe(r)
            somme == SommeEfficacites(K)
            eff == IF somme > 95 THEN 95 ELSE somme
            \* score_brut * (1 - eff), in hundredths
            x == r.score_brut * (100 - eff)
        IN  /\ e.risque_id = r.id /\ e.score_brut = r.score_brut
            /\ 1 <= e.score_residuel /\ e.score_residuel <= e.score_brut
            /\ K = {} => e.score_residuel = r.score_brut /\ e.reduction = 0
            /\ K # {} =>
                  /\ e.reduction_pct = eff /\ e.reduction_pct <= 95
                  /\ e.score_residuel = 1 => x <= 150
                  /\ e.score_residuel >= 2 =>
                        /\ 100 * e.score_residuel - x <= 50
                        /\ x - 100 * e.score_residuel <= 50
            /\ (r.gravite = 2 /\ r.vraisemblance = 3 /\ Cardinality(K) = 1
                  /\ somme = 70) =>
                  e.score_residuel = 1 /\ e.reduction_pct = 70

\* C3 witness: two measures (0.7 and 0.5) are associated, their sum is
\* capped at 0.95 and a gross score of 4 becomes a residual of 1.
C3_Witness ==
    /\ last.op = "calculate_risque_residuel"
    /\ Cardinality(MesuresDe(a5.risques[1])) = 2
    /\ SommeEfficacites(MesuresDe(a5.risques[1])) = 120
    /\ a5.risques[1].score_brut = 4
    /\ a5.risques_residuels[Len(a5.risques_residuels)].reduction_pct = 95
    /\ a5.risques_residuels[Len(a5.risques_residuels)].score_residuel = 1

(***************************************************************************)
(* SpecW2: a Workshop2 session.  In this specification calculs holds, for  *)
(* the n-th call of generate_scenarios_strategiques, the length of the     *)
(* list it returned.                                                       *)
(***************************************************************************)
AddSourceRisque(max, CaracteristiquesIn) ==
    /\ Tick(max)
    /\ \E c \in CaracteristiquesIn :
         LET r == add_source_risque(a2, c[1], c[2], c[3])
         IN  /\ a2' = r.a
             /\ last' = Call("add_source_risque", Outcome(r))
    /\ UNCHANGED <<fichiers, a1, a3, a4, a5, calculs, args>>

AddObjectifVise(max, ImpactsIn) ==
    /\ Tick(max)
    /\ \E i \in ImpactsIn :
         LET r == add_objectif_vise(a2, i)
         IN  /\ a2' = r.a
             /\ last' = Call("add_objectif_vise", Outcome(r))
    /\ UNCHANGED <<fichiers, a1, a3, a4, a5, calculs, args>>

\* last also records whether both ids referenced registered entities and
\* the pertinence passed
MapSrToOv(max, SrIds, OvIds, PertinencesIn) ==
    /\ Tick(max)
    /\ \E s \in SrIds, o \in OvIds, p \in PertinencesIn :
         LET r == map_sr_to_ov(a2, s, o, p)
         IN  /\ a2' = r.a
             /\ last' = [op |-> "map_sr_to_ov",
                         res |-> IF r.raised THEN "raised"
                                 ELSE IF r.ret = "{}" THEN "{}" ELSE "ok",
                         ref |-> IF FindSource(a2, s) # 0 /\ FindObjectif(a2, o) # 0
                                 THEN "connues" ELSE "inconnue",
                         pertinence |-> p]
    /\ UNCHANGED <<fichiers, a1, a3, a4, a5, calculs, args>>

GenerateScenariosStrategiques(max) ==
    /\ Tick(max)
    /\ LET r == generate_scenarios_strategiques(a2)
       IN  /\ a2' = r.a
           /\ last' = Call("generate_scenarios_strategiques", Outcome(r))
           /\ calculs' = calculs \cup
                  {[n |-> Cardinality(calculs) + 1, taille |-> Len(r.ret)]}
    /\ UNCHANGED <<fichiers, a1, a3, a4, a5, args>>

\* (ressources, determination, competences) arguments
Caracteristiques == {<<3, 4, 3>>, <<1, 2, 1>>, <<0, 1, 1>>}

Impacts == {2, 4, 5}

Pertinences == {0, 1, 2, 4}

NextW2 ==
    \/ AddSourceRisque(MaxAppelsW2, Caracteristiques)
    \/ AddObjectifVise(MaxAppelsW2, Impacts)
    \/ MapSrToOv(MaxAppelsW2, 1..MaxRefId, 1..MaxRefId, Pertinences)
    \/ GenerateScenariosStrategiques(MaxAppelsW2)

SpecW2 == Init /\ [][NextW2]_vars

\* the mapping entries whose two ids resolve to registered entities
RelationsValides ==
    {k \in 1..Len(a2.cartographie_sr_ov) :
        /\ \E i \in 1..Len(a2.sources_risque) :
              a2.sources_risque[i].id = a2.cartographie_sr_ov[k].sr_id
        /\ \E j \in 1..Len(a2.objectifs_vises) :
              a2.objectifs_vises[j].id = a2.cartographie_sr_ov[k].ov_id}

\* C5: right after generate_scenarios_strategiques the list has one
\* scenario per valid mapping entry, whatever was generated before, and a
\* second call in a row would return the same list.
C5_UnScenarioParRelation ==
    last.op = "generate_scenarios_strategiques" =>
        /\ Len(a2.scenarios_strategiques) = Cardinality(RelationsValides)
        /\ generate_scenarios_strategiques(a2).ret = a2.scenarios_strategiques

\* C5 witness: a generation that returned scenarios is followed, after a
\* further mapping, by a generation that returns more of them.
C5_Witness ==
    /\ last.op = "generate_scenarios_strategiques"
    /\ \E c, d \in calculs : c.n < d.n /\ 1 <= c.taille /\ c.taille < d.taille
    /\ Len(a2.scenarios_strategiques) = Len(a2.cartographie_sr_ov)

\* C6: the generated list is sorted by non-increasing gravity and, among
\* scenarios of equal gravity, in the insertion order of their mapping
\* entries (scenario k is built from the k-th valid mapping entry).
C6_TriStable ==
    last.op = "generate_scenarios_strategiques" =>
        LET sc == a2.scenarios_strategiques
            carto == a2.cartographie_sr_ov
        IN  /\ \A i \in 1..Len(sc) :
                  /\ sc[i].id \in 1..Len(carto)
                  /\ sc[i].gravite = carto[sc[i].id].gravite_scenario
                  /\ sc[i].pertinence = carto[sc[i].id].pertinence
            /\ \A i, j \in 1..Len(sc) :
                  i < j =>
                     /\ sc[i].gravite >= sc[j].gravite
                     /\ sc[i].gravite = sc[j].gravite => sc[i].id < sc[j].id

\* C6 witness: the sort moved a scenario ahead of an earlier mapping entry,
\* and two scenarios of equal gravity follow each other.
C6_Witness ==
    /\ last.op = "generate_scenarios_strategiques"
    /\ Len(a2.scenarios_strategiques) >= 3
    /\ a2.scenarios_strategiques[1].id # 1
    /\ \E i \in 1..(Len(a2.scenarios_strategiques) - 1) :
          a2.scenarios_strategiques[i].gravite =
              a2.scenarios_strategiques[i + 1].gravite

\* C8 as stated: whenever sr_id or ov_id references no registered entity,
\* map_sr_to_ov returns the empty dict (it does not raise).
C8_InconnuRetourneVide ==
    (last.op = "map_sr_to_ov" /\ last.ref = "inconnue") => last.res = "{}"

\* C8 amended: with a pertinence in 1..4, an unknown sr_id or ov_id makes
\* map_sr_to_ov return the empty dict without raising and without changing
\* the assessment; and no call with an unknown reference changes it.
C8_InconnuRetourneVideSiPertinenceValide ==
    /\ (last.op = "map_sr_to_ov" /\ last.ref = "inconnue"
          /\ last.pertinence \in 1..4) => last.res = "{}"
    /\ \A s \in 1..MaxRefId, o \in 1..MaxRefId, p \in Pertinences \cup (1..4) :
          (~(\E i \in 1..Len(a2.sources_risque) : a2.sources_risque[i].id = s)
             \/ ~(\E j \in 1..Len(a2.objectifs_vises) : a2.objectifs_vises[j].id = o))
          => /\ map_sr_to_ov(a2, s, o, p).a = a2
             /\ p \in 1..4 =>
                   /\ ~map_sr_to_ov(a2, s, o, p).raised
                   /\ map_sr_to_ov(a2, s, o, p).ret = "{}"

\* C8 witness: the call returned the empty dict on an assessment that holds
\* a source, an objective and a mapping entry.
C8_Witness ==
    /\ last.op = "map_sr_to_ov" /\ last.ref = "inconnue" /\ last.res = "{}"
    /\ a2.sources_risque # <<>> /\ a2.objectifs_vises # <<>>
    /\ a2.cartographie_sr_ov # <<>>

(***************************************************************************)
(* SpecW34: the registrations of rated entities in Workshop3 and           *)
(* Workshop4, next to Workshop5.add_mesure_traitement.                     *)
(***************************************************************************)
AddPartiePrenante(max, EvaluationsIn) ==
    /\ Tick(max)
    /\ \E e \in EvaluationsIn :
         LET r == add_partie_prenante(a3, e[1], e[2], e[3], e[4])
         IN  /\ a3' = r.a
             /\ last' = Call("add_partie_prenante", Outcome(r))
    /\ UNCHANGED <<fichiers, a1, a2, a4, a5, calculs, args>>

AddActionElementaire(max, CotationsIn) ==
    /\ Tick(max)
    /\ \E c \in CotationsIn :
         LET r == add_action_elementaire(a4, c[1], c[2])
         IN  /\ a4' = r.a
             /\ last' = Call("add_action_elementaire", Outcome(r))
    /\ UNCHANGED <<fichiers, a1, a2, a3, a5, calculs, args>>

AddMesureExistante(max, EfficacitesIn, CouverturesIn) ==
    /\ Tick(max)
    /\ \E e \in EfficacitesIn, c \in CouverturesIn :
         LET r == add_mesure_existante(a4, e, c)
         IN  /\ a4' = r.a
             /\ last' = Call("add_mesure_existante", Outcome(r))
    /\ UNCHANGED <<fichiers, a1, a2, a3, a5, calculs, args>>

\* (dependance, exposition, confiance, maturite) arguments
Evaluations == {<<2, 3, 2, 1>>, <<4, 4, 1, 1>>, <<5, 1, 1, 1>>, <<1, 1, 0, 1>>}

\* (difficulte, detectabilite) arguments
Cotations == {<<2, 2>>, <<4, 1>>, <<0, 3>>, <<1, 7>>}

\* efficacite arguments of add_mesure_existante, in hundredths
EfficacitesExistantes == {0 - 10, 60, 150}

Couvertures == {<<>>, <<1>>}

NextW34 ==
    \/ AddPartiePrenante(MaxAppelsW34, Evaluations)
    \/ AddActionElementaire(MaxAppelsW34, Cotations)
    \/ AddMesureExistante(MaxAppelsW34, EfficacitesExistantes, Couvertures)
    \/ AddMesureTraitement(MaxAppelsW34, Couts, Efficacites, Delais, Responsables)

SpecW34 == Init /\ [][NextW34]_vars

\* C10: the registrations reject out-of-range ratings, so every stakeholder
\* has its four ratings in 1..4, every elementary action its difficulty and
\* detectability in 1..4, and every existing measure and treatment measure
\* its efficacy in [0, 1].
C10_NotationsDansEchelle ==
    /\ \A i \in 1..Len(a3.parties_prenantes) :
          /\ a3.parties_prenantes[i].dependance \in 1..4
          /\ a3.parties_prenantes[i].exposition \in 1..4
          /\ a3.parties_prenantes[i].confiance \in 1..4
          /\ a3.parties_prenantes[i].maturite \in 1..4
    /\ \A i \in 1..Len(a4.actions_elementaires) :
          /\ a4.actions_elementaires[i].difficulte \in 1..4
          /\ a4.actions_elementaires[i].detectabilite \in 1..4
    /\ \A i \in 1..Len(a4.mesures_existantes) :
          a4.mesures_existantes[i].efficacite \in 0..100
    /\ \A i \in 1..Len(a5.mesures_traitement) :
          a5.mesures_traitement[i].efficacite \in 0..100

(***************************************************************************)
(* SpecW12: the registrations of rated entities in Workshop1 and           *)
(* Workshop2, with ratings inside and outside their intervals.             *)
(***************************************************************************)
AddMission(max, CriticitesIn) ==
    /\ Tick(max)
    /\ \E c \in CriticitesIn :
         LET r == add_mission(a1, c)
         IN  /\ a1' = r.a
             /\ last' = Call("add_mission", Outcome(r))
    /\ UNCHANGED <<fichiers, a2, a3, a4, a5, calculs, args>>

AddValeurMetier(max, SensibilitesIn) ==
    /\ Tick(max)
    /\ \E s \in SensibilitesIn :
         LET r == add_valeur_metier(a1, s)
         IN  /\ a1' = r.a
             /\ last' = Call("add_valeur_metier", Outcome(r))
    /\ UNCHANGED <<fichiers, a2, a3, a4, a5, calculs, args>>

AddBienSupport(max, ValeursIn) ==
    /\ Tick(max)
    /\ \E v \in ValeursIn :
         LET r == add_bien_support(a1, v)
         IN  /\ a1' = r.a
             /\ last' = Call("add_bien_support", Outcome(r))
    /\ UNCHANGED <<fichiers, a2, a3, a4, a5, calculs, args>>

AddEvenementRedoute(max, GravitesIn, BiensIn) ==
    /\ Tick(max)
    /\ \E g \in GravitesIn, b \in BiensIn :
         LET r == add_evenement_redoute(a1, g, b)
         IN  /\ a1' = r.a
             /\ last' = Call("add_evenement_redoute", Outcome(r))
    /\ UNCHANGED <<fichiers, a2, a3, a4, a5, calculs, args>>

EvaluateSocle(max, DomainesIn, ScoresIn) ==
    /\ Tick(max)
    /\ \E d \in DomainesIn, sc \in ScoresIn :
         LET r == evaluate_socle(a1, d, sc)
         IN  /\ a1' = r.a
             /\ last' = Call("evaluate_socle", Outcome(r))
    /\ UNCHANGED <<fichiers, a2, a3, a4, a5, calculs, args>>

\* criticite and gravite arguments
Degres == {0, 2, 5}

\* sensibilite arguments: complete, 'T' missing, 'I' too high, 'T' too low
Sensibilites ==
    {[D |-> 3, I |-> 4, C |-> 2, T |-> 1], [D |-> 1, I |-> 1, C |-> 1],
     [D |-> 2, I |-> 5, C |-> 1, T |-> 1], [D |-> 2, I |-> 2, C |-> 2, T |-> 0]}

Domaines == {"Contrôle d'accès", "Sauvegardes"}

ScoresSocle == {0 - 1, 0, 100, 101}

NextW12 ==
    \/ AddMission(MaxAppelsW12, Degres)
    \/ AddValeurMetier(MaxAppelsW12, Sensibilites)
    \/ AddBienSupport(MaxAppelsW12, {<<1>>})
    \/ AddEvenementRedoute(MaxAppelsW12, Degres, {<<1>>})
    \/ EvaluateSocle(MaxAppelsW12, Domaines, ScoresSocle)
    \/ AddSourceRisque(MaxAppelsW12, Caracteristiques)
    \/ AddObjectifVise(MaxAppelsW12, Impacts)
    \/ MapSrToOv(MaxAppelsW12, 1..MaxRefId, 1..MaxRefId, Pertinences)

SpecW12 == Init /\ [][NextW12]_vars

\* the ratings of a sensibilite dict are complete and in 1..4
SensibiliteValide(s) ==
    \A cle \in {"D", "I", "C", "T"} : cle \in DOMAIN s /\ s[cle] \in 1..4

\* C11: in Workshop1 and Workshop2 a call with an out-of-range rating (or
\* a sensibilite dict lacking one of D, I, C, T) raises and leaves the study
\* and the assessment as they were, so every stored rating is inside its
\* interval: criticite, gravite, the four sensibilite ratings, the three
\* factors of a source, impact and pertinence in 1..4, socle scores in
\* 0..100.
C11_NotationsValidees ==
    /\ \A c \in Degres \ (1..4) :
          /\ add_mission(a1, c).raised /\ add_mission(a1, c).a = a1
          /\ add_evenement_redoute(a1, c, <<1>>).raised
          /\ add_evenement_redoute(a1, c, <<1>>).a = a1
    /\ \A s \in Sensibilites :
          ~SensibiliteValide(s) =>
              add_valeur_metier(a1, s).raised /\ add_valeur_metier(a1, s).a = a1
    /\ \A d \in Domaines, sc \in ScoresSocle \ (0..100) :
          evaluate_socle(a1, d, sc).raised /\ evaluate_socle(a1, d, sc).a = a1
    /\ \A c \in Caracteristiques :
          (\E k \in 1..3 : c[k] \notin 1..4) =>
              /\ add_source_risque(a2, c[1], c[2], c[3]).raised
              /\ add_source_risque(a2, c[1], c[2], c[3]).a = a2
    /\ \A i \in Impacts \ (1..4) :
          add_objectif_vise(a2, i).raised /\ add_objectif_vise(a2, i).a = a2
    /\ \A s \in 1..MaxRefId, o \in 1..MaxRefId, p \in Pertinences \ (1..4) :
          map_sr_to_ov(a2, s, o, p).raised /\ map_sr_to_ov(a2, s, o, p).a = a2
    /\ \A i \in 1..Len(a1.missions) : a1.missions[i].criticite \in 1..4
    /\ \A i \in 1..Len(a1.valeurs_metier) :
          SensibiliteValide(a1.valeurs_metier[i].sensibilite)
    /\ \A i \in 1..Len(a1.evenements_redoutes) :
          a1.evenements_redoutes[i].gravite \in 1..4
    /\ \A d \in DOMAIN a1.socle_securite : a1.socle_securite[d] \in 0..100
    /\ \A i \in 1..Len(a2.sources_risque) :
          /\ a2.sources_risque[i].ressources \in 1..4
          /\ a2.sources_risque[i].determination \in 1..4
          /\ a2.sources_risque[i].competences \in 1..4
    /\ \A i \in 1..Len(a2.objectifs_vises) :
          a2.objectifs_vises[i].impact_potentiel \in 1..4
    /\ \A i \in 1..Len(a2.cartographie_sr_ov) :
          a2.cartographie_sr_ov[i].pertinence \in 1..4

\* C11 witness: add_valeur_metier has just raised on a study that already
\* holds a business value and a baseline score.
C11_Witness ==
    /\ last.op = "add_valeur_metier" /\ last.res = "raised"
    /\ Len(a1.valeurs_metier) = 1
    /\ DOMAIN a1.socle_securite # {}

(***************************************************************************)
(* SpecAcceptation: acceptances of one risk.  Init is the register after   *)
(* one add_risque("R1", g, v) with g, v in 1..4, as in SpecResiduel.       *)
(***************************************************************************)
NextAcceptation ==
    \/ AddMesureTraitement(MaxAppelsAcceptation, Couts, EfficacitesGrille,
                           Delais, Responsables)
    \/ AssociateMesureToRisque(MaxAppelsAcceptation, {"R1"}, 1..MaxMesureId)
    \/ CalculateRisqueResiduel(MaxAppelsAcceptation, {"R1"})
    \/ AcceptRisque(MaxAppelsAcceptation, {"R1", "R2"})

SpecAcceptation == InitResiduel /\ [][NextAcceptation]_vars

\* C12: right after a successful accept_risque(id), the register holds one
\* residual entry for id and it is the one just computed (its applied
\* measures are those associated with the risk now); the acceptance record
\* appended last carries that entry's score_residuel and level, its review
\* is due 90 days later when that score is >= 3 and 365 days later when it
\* is < 3, and the risk's status is 'Accepté'.
C12_Acceptation ==
    (last.op = "accept_risque" /\ last.res = "ok") =>
        LET acc == a5.risques_acceptes[Len(a5.risques_acceptes)]
            r == a5.risques[1]
            E == {k \in 1..Len(a5.risques_residuels) :
                     a5.risques_residuels[k].risque_id = acc.risque_id}
        IN  /\ acc.risque_id = r.id
            /\ Cardinality(E) = 1
            /\ \A k \in E :
                  LET e == a5.risques_residuels[k]
                  IN  /\ k = Len(a5.risques_residuels)
                      /\ e.score_brut = r.score_brut
                      /\ {e.mesures_appliquees[j] :
                             j \in 1..Len(e.mesures_appliquees)}
                           = {a5.mesures_traitement[m].id : m \in MesuresDe(r)}
                      /\ \E c \in calculs : c.entree = e
                      /\ acc.score_residuel = e.score_residuel
                      /\ acc.niveau_residuel = e.niveau_residuel
            /\ acc.score_residuel >= 3 => acc.date_revue = 90
            /\ acc.score_residuel < 3 => acc.date_revue = 365
            /\ r.statut = "Accepté"

\* C12 witness: a risk of gross score 4 was accepted with one associated
\* measure that brings it to 3, so its review is due in 90 days.
C12_Witness ==
    /\ last.op = "accept_risque" /\ last.res = "ok"
    /\ a5.risques[1].score_brut = 4
    /\ a5.risques_acceptes[Len(a5.risques_acceptes)].score_residuel = 3
    /\ a5.risques_acceptes[Len(a5.risques_acceptes)].date_revue = 90
    /\ a5.risques_residuels[1].mesures_appliquees # <<>>

(***************************************************************************)
(* SpecPlan: treatment plans.  Init is the assessment after n successful   *)
(* add_mesure_traitement calls, n in 0..MaxMesuresPlan, whose costs follow *)
(* one of three patterns and whose lead times and owners cycle; a risk is  *)
(* then registered, measures are added and associated, and the plan built. *)
(***************************************************************************)
CreatePlanTraitement(max) ==
    /\ Tick(max)
    /\ LET r == create_plan_traitement(a5)
       IN  /\ a5' = r.a
           /\ last' = Call("create_plan_traitement", Outcome(r))
    /\ UNCHANGED <<fichiers, a1, a2, a3, a4, calculs, args>>

MotifsCouts == {"croissant", "décroissant", "alterné"}

\* cout_estime of the k-th of n measures
CoutMotif(motif, k, n) ==
    IF motif = "croissant" THEN 1000 * k
    ELSE IF motif = "décroissant" THEN 1000 * (n - k + 1)
    ELSE IF k % 2 = 1 THEN 5000 ELSE 1000

\* delai_mise_en_oeuvre arguments, cycled through
DelaisPlan == <<45, 90, 91, 150, 180, 181, 365>>

DelaiDe(k) == DelaisPlan[((k - 1) % Len(DelaisPlan)) + 1]

ResponsableDe(k) == IF k % 3 = 0 THEN "DSI" ELSE "RSSI"

\* the assessment after n add_mesure_traitement calls
RECURSIVE MesuresAjoutees(_, _, _)
MesuresAjoutees(motif, k, n) ==
    IF k = 0 THEN W5Init
    ELSE add_mesure_traitement(MesuresAjoutees(motif, k - 1, n),
                               CoutMotif(motif, k, n), 70, DelaiDe(k),
                               ResponsableDe(k)).a

InitPlan ==
    /\ a1 = W1Init
    /\ a2 = W2Init
    /\ a3 = W3Init
    /\ a4 = W4Init
    /\ \E n \in 0..MaxMesuresPlan, motif \in MotifsCouts :
          a5 = MesuresAjoutees(motif, n, n)
    /\ fichiers = EmptyDict
    /\ last = NoCall
    /\ calculs = {}
    /\ args = <<>>
    /\ appels = 0

\* measure ids tried by associate_mesure_to_risque
MesureIdsPlan == {2, MaxMesuresPlan}

NextPlan ==
    \/ AddRisque(MaxAppelsPlan, {"R1"}, {<<2, 3>>})
    \/ AddMesureTraitement(MaxAppelsPlan, {2500}, Efficacites, Delais,
                           Responsables)
    \/ AssociateMesureToRisque(MaxAppelsPlan, {"R1"}, MesureIdsPlan)
    \/ CreatePlanTraitement(MaxAppelsPlan)

SpecPlan == InitPlan /\ [][NextPlan]_vars

\* positions of the registered measures, and sums over sets of positions
Mesures == 1..Len(a5.mesures_traitement)

RECURSIVE SommeCouts(_)
SommeCouts(K) ==
    IF K = {} THEN 0
    ELSE LET k == CHOOSE x \in K : TRUE
         IN  a5.mesures_traitement[k].cout_estime + SommeCouts(K \ {k})

RECURSIVE SommeBudgets(_, _)
SommeBudgets(resp, O) ==
    IF O = {} THEN 0
    ELSE LET o == CHOOSE x \in O : TRUE
         IN  resp[o].budget_total + SommeBudgets(resp, O \ {o})

MesureDe(id) == a5.mesures_traitement[id]

\* x ranks at or before y: more covered risks first, then by cost as given
DevanceCoutDesc(x, y) ==
    \/ Len(x.risques_couverts) > Len(y.risques_couverts)
    \/ /\ Len(x.risques_couverts) = Len(y.risques_couverts)
       /\ x.cout_estime >= y.cout_estime

DevanceCoutAsc(x, y) ==
    \/ Len(x.risques_couverts) > Len(y.risques_couverts)
    \/ /\ Len(x.risques_couverts) = Len(y.risques_couverts)
       /\ x.cout_estime <= y.cout_estime

\* the timeline holds min(10, number of measures) distinct measures
TimelineTaille ==
    LET tl == a5.plan_traitement.timeline
    IN  /\ Len(tl) = IF Len(a5.mesures_traitement) < 10
                     THEN Len(a5.mesures_traitement) ELSE 10
        /\ \A i \in 1..Len(tl) : tl[i].mesure_id \in Mesures
        /\ \A i, j \in 1..Len(tl) : tl[i].mesure_id = tl[j].mesure_id => i = j

\* C15 as stated: the timeline has min(10, number of measures) entries, the
\* first of the ranking by number of covered risks descending, ties broken
\* by estimated cost descending.
C15_TimelineCoutDesc ==
    last.op = "create_plan_traitement" =>
        LET tl == a5.plan_traitement.timeline
            dans == {tl[i].mesure_id : i \in 1..Len(tl)}
        IN  /\ TimelineTaille
            /\ \A i, j \in 1..Len(tl) :
                  i < j => DevanceCoutDesc(MesureDe(tl[i].mesure_id),
                                           MesureDe(tl[j].mesure_id))
            /\ \A i \in 1..Len(tl), k \in Mesures \ dans :
                  DevanceCoutDesc(MesureDe(tl[i].mesure_id), MesureDe(k))

\* C15 amended: the timeline has min(10, number of measures) entries, the
\* first of the ranking by number of covered risks descending, ties broken
\* by estimated cost ascending (among measures covering the same number of
\* risks, the cheaper one comes first).
C15_TimelineCoutAsc ==
    last.op = "create_plan_traitement" =>
        LET tl == a5.plan_traitement.timeline
            dans == {tl[i].mesure_id : i \in 1..Len(tl)}
        IN  /\ TimelineTaille
            /\ \A i, j \in 1..Len(tl) :
                  i < j => DevanceCoutAsc(MesureDe(tl[i].mesure_id),
                                          MesureDe(tl[j].mesure_id))
            /\ \A i \in 1..Len(tl), k \in Mesures \ dans :
                  DevanceCoutAsc(MesureDe(tl[i].mesure_id), MesureDe(k))

\* C15 witness: eleven measures of decreasing cost, M2 covering a risk; the
\* timeline starts with M2, continues with the cheapest measure M11 and
\* leaves out the most expensive one, M1.
C15_Witness ==
    /\ last.op = "create_plan_traitement"
    /\ Len(a5.mesures_traitement) = 11
    /\ Len(a5.plan_traitement.timeline) = 10
    /\ a5.plan_traitement.timeline[1].mesure_id = 2
    /\ a5.plan_traitement.timeline[2].mesure_id = 11
    /\ \A i \in 1..10 : a5.plan_traitement.timeline[i].mesure_id # 1

\* the phases (1..3) whose list holds the id, counted with multiplicity
PhasesDe(id) ==
    LET ph == a5.plan_traitement.phases
    IN  {<<p, j>> \in (1..3) \X Mesures :
            j <= Len(ph[p].mesures) /\ ph[p].mesures[j] = id}

\* C16: right after create_plan_traitement every registered measure is in
\* exactly one phase: phase 1 when its lead time is <= 90 days, phase 2
\* when it is > 90 and <= 180, phase 3 when it is > 180.
C16_Phases ==
    last.op = "create_plan_traitement" =>
        /\ Len(a5.plan_traitement.phases) = 3
        /\ \A k \in Mesures :
              LET m == a5.mesures_traitement[k]
                  d == m.delai_mise_en_oeuvre
                  attendue == IF d <= 90 THEN 1 ELSE IF d <= 180 THEN 2 ELSE 3
              IN  /\ Cardinality(PhasesDe(m.id)) = 1
                  /\ \A pj \in PhasesDe(m.id) : pj[1] = attendue
                  /\ d = 45 => attendue = 1
                  /\ d = 150 => attendue = 2
                  /\ d = 365 => attendue = 3
        /\ \A p \in 1..3 :
              \A j \in 1..Len(a5.plan_traitement.phases[p].mesures) :
                  a5.plan_traitement.phases[p].mesures[j] \in Mesures

\* C16 witness: a plan over measures with lead times 45, 90, 91, 150, 180,
\* 181 and 365 days: 45 and 90 are in phase 1, 91, 150 and 180 in phase 2,
\* 181 and 365 in phase 3.
C16_Witness ==
    /\ last.op = "create_plan_traitement"
    /\ Len(a5.mesures_traitement) = 7
    /\ Len(a5.plan_traitement.phases[1].mesures) = 2
    /\ Len(a5.plan_traitement.phases[2].mesures) = 3
    /\ Len(a5.plan_traitement.phases[3].mesures) = 2

(***************************************************************************)
(* SpecVraisemblance: a Workshop4 session of action and scenario           *)
(* registrations, likelihood computations and syntheses.                   *)
(***************************************************************************)
AddScenarioOperationnel(max, ListesIn) ==
    /\ Tick(max)
    /\ \E l \in ListesIn :
         LET r == add_scenario_operationnel(a4, l)
         IN  /\ a4' = r.a
             /\ last' = Call("add_scenario_operationnel", Outcome(r))
    /\ UNCHANGED <<fichiers, a1, a2, a3, a5, calculs, args>>

\* res is "0" when the call returned 0 (nothing computed)
CalculateVraisemblanceScenario(max, ScenarioIds) ==
    /\ Tick(max)
    /\ \E id \in ScenarioIds :
         LET r == calculate_vraisemblance_scenario(a4, id)
         IN  /\ a4' = r.a
             /\ last' = Call("calculate_vraisemblance_scenario",
                             IF r.ret = 0 THEN "0" ELSE "ok")
    /\ UNCHANGED <<fichiers, a1, a2, a3, a5, calculs, args>>

\* last also records the gravite_base passed; calculs holds, for the n-th
\* call, the length of the list it returned
SynthetizeRisks(max, GravitesIn) ==
    /\ Tick(max)
    /\ \E g \in GravitesIn :
         LET r == synthetize_risks(a4, g)
         IN  /\ a4' = r.a
             /\ last' = [op |-> "synthetize_risks", res |-> Outcome(r),
                         gravite_base |-> g]
             /\ calculs' = calculs \cup
                    {[n |-> Cardinality(calculs) + 1, taille |-> Len(r.ret)]}
    /\ UNCHANGED <<fichiers, a1, a2, a3, a5, args>>

\* (difficulte, detectabilite) arguments: action likelihoods 4, 1 and 2
CotationsVraisemblance == {<<1, 1>>, <<4, 4>>, <<2, 3>>}

\* actions arguments of add_scenario_operationnel
ListesVraisemblance == {<<1, 2>>, <<2>>}

\* gravite_base arguments
GravitesBase == {3, 4}

NextVraisemblance ==
    \/ AddActionElementaire(MaxAppelsVraisemblance, CotationsVraisemblance)
    \/ AddScenarioOperationnel(MaxAppelsVraisemblance, ListesVraisemblance)
    \/ CalculateVraisemblanceScenario(MaxAppelsVraisemblance, 1..MaxScenarioId)
    \/ SynthetizeRisks(MaxAppelsVraisemblance, {3})

SpecVraisemblance == Init /\ [][NextVraisemblance]_vars

\* positions of the registered actions listed in a scenario, and the sum of
\* their likelihoods
ActionsListees(so) ==
    {i \in 1..Len(a4.actions_elementaires) :
        \E j \in 1..Len(so.actions_elementaires) :
            so.actions_elementaires[j] = a4.actions_elementaires[i].id}

RECURSIVE SommeVraisemblances(_)
SommeVraisemblances(A) ==
    IF A = {} THEN 0
    ELSE LET i == CHOOSE x \in A : TRUE
         IN  a4.actions_elementaires[i].vraisemblance_action
                 + SommeVraisemblances(A \ {i})

\* C17: right after synthetize_risks, the likelihood of every operational
\* scenario that lists at least one registered action is the integer
\* nearest to the mean of the likelihoods of the registered actions it
\* lists, and its synthesis entry carries that likelihood, whatever was
\* called before.
C17_VraisemblanceMoyenne ==
    last.op = "synthetize_risks" =>
        \A k \in 1..Len(a4.scenarios_operationnels) :
            LET so == a4.scenarios_operationnels[k]
                A == ActionsListees(so)
                somme == SommeVraisemblances(A)
                n == Cardinality(A)
            IN  /\ A # {} =>
                      /\ 2 * (somme - n * so.vraisemblance) <= n
                      /\ 2 * (n * so.vraisemblance - somme) <= n
                /\ \E e \in 1..Len(a4.synthese_risques) :
                      /\ a4.synthese_risques[e].scenario_id = so.id
                      /\ a4.synthese_risques[e].vraisemblance = so.vraisemblance

(***************************************************************************)
(* SpecSynthese: syntheses over three registered actions.  Init is the     *)
(* assessment after three add_action_elementaire calls; scenarios and      *)
(* existing measures are then registered and the risks synthesised.        *)
(***************************************************************************)
\* the (difficulte, detectabilite) arguments of the three registrations
CotationsInit ==
    {<< <<1, 1>>, <<4, 4>>, <<2, 3>> >>, << <<2, 2>>, <<1, 3>>, <<3, 3>> >>}

InitSynthese ==
    /\ a1 = W1Init
    /\ a2 = W2Init
    /\ a3 = W3Init
    /\ \E c \in CotationsInit :
          a4 = add_action_elementaire(
                   add_action_elementaire(
                       add_action_elementaire(W4Init, c[1][1], c[1][2]).a,
                       c[2][1], c[2][2]).a,
                   c[3][1], c[3][2]).a
    /\ a5 = W5Init
    /\ fichiers = EmptyDict
    /\ last = NoCall
    /\ calculs = {}
    /\ args = <<>>
    /\ appels = 0

ListesSynthese == {<<1, 2>>, <<1, 1, 2>>, <<3>>}

CouverturesSynthese == {<<1>>, <<1, 2>>}

\* efficacite arguments, in hundredths: two in [0, 1], one above
EfficacitesSynthese == {30, 60, 150}

NextSynthese ==
    \/ AddScenarioOperationnel(MaxAppelsSynthese, ListesSynthese)
    \/ AddMesureExistante(MaxAppelsSynthese, EfficacitesSynthese,
                          CouverturesSynthese)
    \/ SynthetizeRisks(MaxAppelsSynthese, GravitesBase)

SpecSynthese == InitSynthese /\ [][NextSynthese]_vars

\* the requested actions (elements of the list) that some measure covers
Couvertes(liste) ==
    {liste[j] : j \in {i \in 1..Len(liste) :
        \E m \in 1..Len(a4.mesures_existantes) :
            \E c \in 1..Len(a4.mesures_existantes[m].actions_couvertes) :
                a4.mesures_existantes[m].actions_couvertes[c] = liste[i]}}

\* sum of the efficacies over every match of a measure with an entry of
\* the list that it covers, in hundredths
RECURSIVE SommeMatches(_, _, _)
SommeMatches(liste, m, j) ==
    IF m = 0 THEN 0
    ELSE IF j = 0 THEN SommeMatches(liste, m - 1, Len(liste))
    ELSE (IF \E c \in 1..Len(a4.mesures_existantes[m].actions_couvertes) :
                 a4.mesures_existantes[m].actions_couvertes[c] = liste[j]
          THEN a4.mesures_existantes[m].efficacite ELSE 0)
         + SommeMatches(liste, m, j - 1)

EfficacitesValides ==
    \A m \in 1..Len(a4.mesures_existantes) :
        a4.mesures_existantes[m].efficacite \in 0..100

\* C18: for every action list, the reduction r computed from the existing
\* measures is 0 when no measure covers a requested action and otherwise
\* min(0.9, (|covered| / |requested|) * (sum of matched efficacies /
\* |covered|)); with every efficacy in [0, 1] it lies in [0, 0.9], and the
\* reduction_pct of the entries of a synthesis lies in [0, 90].
C18_Reduction ==
    /\ \A liste \in ListesSynthese \cup {<<>>} :
          LET r == _calculate_risk_reduction(a4, liste)
              c == Cardinality(Couvertes(liste))
              somme == SommeMatches(liste, Len(a4.mesures_existantes), Len(liste))
              \* (c / |liste|) * (somme / (100 * c)) as a fraction
              pn == c * somme
              pd == Len(liste) * 100 * c
          IN  /\ r.den > 0
              /\ c = 0 => r.num = 0
              /\ (c # 0 /\ 10 * pn <= 9 * pd) => r.num * pd = pn * r.den
              /\ (c # 0 /\ 10 * pn > 9 * pd) => 10 * r.num = 9 * r.den
              /\ EfficacitesValides => (0 <= r.num /\ 10 * r.num <= 9 * r.den)
    /\ (last.op = "synthetize_risks" /\ EfficacitesValides) =>
          \A e \in 1..Len(a4.synthese_risques) :
              a4.synthese_risques[e].reduction_pct \in 0..900

\* C18 witness: two measures of efficacy 0.6 cover the actions of a
\* scenario, and its synthesis entry shows the capped reduction of 90 %.
C18_Witness ==
    /\ last.op = "synthetize_risks"
    /\ EfficacitesValides
    /\ Len(a4.mesures_existantes) = 2
    /\ \E e \in 1..Len(a4.synthese_risques) :
          a4.synthese_risques[e].reduction_pct = 900
    /\ \E liste \in ListesSynthese :
          /\ SommeMatches(liste, 2, Len(liste)) = 120 * Len(liste)
          /\ _calculate_risk_reduction(a4, liste) = [num |-> 9, den |-> 10]

\* the band of a residual risk in the table of Workshop4
Bande(score) ==
    IF score <= 2 THEN "Faible"
    ELSE IF score <= 4 THEN "Acceptable"
    ELSE IF score <= 8 THEN "Modéré"
    ELSE IF score <= 12 THEN "Élevé"
    ELSE "Critique"

\* C19: right after synthetize_risks(gravite_base) the synthesis list has
\* exactly one entry per registered operational scenario, whatever earlier
\* calls produced, and in each entry risque_brut is gravite_base times the
\* scenario's likelihood and niveau is the band of risque_residuel.
C19_Synthese ==
    last.op = "synthetize_risks" =>
        /\ Len(a4.synthese_risques) = Len(a4.scenarios_operationnels)
        /\ \A k \in 1..Len(a4.scenarios_operationnels) :
              LET so == a4.scenarios_operationnels[k]
                  E == {e \in 1..Len(a4.synthese_risques) :
                           a4.synthese_risques[e].scenario_id = so.id}
              IN  /\ Cardinality(E) = 1
                  /\ \A e \in E :
                        /\ a4.synthese_risques[e].gravite = last.gravite_base
                        /\ a4.synthese_risques[e].vraisemblance = so.vraisemblance
                        /\ a4.synthese_risques[e].risque_brut
                               = last.gravite_base * so.vraisemblance
        /\ \A e \in 1..Len(a4.synthese_risques) :
              a4.synthese_risques[e].niveau
                  = Bande(a4.synthese_risques[e].risque_residuel)

\* C19 witness: a second synthesis, made after one more scenario was
\* registered, returns two entries, of different levels.
C19_Witness ==
    /\ last.op = "synthetize_risks"
    /\ \E c, d \in calculs : c.n < d.n /\ c.taille = 1 /\ d.taille = 2
    /\ Len(a4.synthese_risques) = 2
    /\ a4.synthese_risques[1].niveau # a4.synthese_risques[2].niveau

(***************************************************************************)
(* SpecGravite: capability and gravity on every combination of ratings.    *)
(* Init draws the three factors, the impact and the pertinence in 1..4;    *)
(* the calls register the source and the objective, map them and generate  *)
(* the scenarios.                                                          *)
(***************************************************************************)
InitGravite ==
    /\ a1 = W1Init
    /\ a2 = W2Init
    /\ a3 = W3Init
    /\ a4 = W4Init
    /\ a5 = W5Init
    /\ fichiers = EmptyDict
    /\ last = NoCall
    /\ calculs = {}
    /\ args \in [ressources : 1..4, determination : 1..4, competences : 1..4,
                  impact : 1..4, pertinence : 1..4]
    /\ appels = 0

NextGravite ==
    \/ AddSourceRisque(MaxAppelsGravite,
                       {<<args.ressources, args.determination, args.competences>>})
    \/ AddObjectifVise(MaxAppelsGravite, {args.impact})
    \/ MapSrToOv(MaxAppelsGravite, {1}, {1}, {args.pertinence})
    \/ GenerateScenariosStrategiques(MaxAppelsGravite)

SpecGravite == InitGravite /\ [][NextGravite]_vars

\* C20: for factors, impact and pertinence in 1..4, the capability of a
\* source (in tenths) is the tenth nearest to the mean of its factors; the
\* gravity of a mapping entry is the band of capability * pertinence *
\* impact / 10 (<= 1.5: 1, <= 2.5: 2, <= 3.5: 3, else 4), in 1..4, and the
\* scenario generated from the entry carries it with its level; factors
\* (3, 4, 3) give 3.3 and, with impact 4 and pertinence 4, gravity 4,
\* 'Critique'.
C20_CapaciteEtGravite ==
    LET somme == args.ressources + args.determination + args.competences
        niveaux == <<"Faible", "Modéré", "Élevé", "Critique">>
    IN  /\ \A i \in 1..Len(a2.sources_risque) :
              LET c == a2.sources_risque[i].capacite_globale
              IN  /\ 2 * (3 * c - 10 * somme) <= 3
                  /\ 2 * (10 * somme - 3 * c) <= 3
                  /\ somme = 10 => c = 33
        /\ \A k \in 1..Len(a2.cartographie_sr_ov) :
              LET rel == a2.cartographie_sr_ov[k]
                  \* capability * pertinence * impact, in tenths
                  produit == a2.sources_risque[rel.sr_id].capacite_globale
                                 * args.pertinence * args.impact
                  g == rel.gravite_scenario
              IN  /\ rel.pertinence = args.pertinence
                  /\ g \in 1..4
                  /\ g = 1 <=> produit <= 150
                  /\ g = 2 <=> (150 < produit /\ produit <= 250)
                  /\ g = 3 <=> (250 < produit /\ produit <= 350)
                  /\ g = 4 <=> 350 < produit
                  /\ (somme = 10 /\ args.impact = 4 /\ args.pertinence = 4)
                        => g = 4
        /\ last.op = "generate_scenarios_strategiques" =>
              /\ Len(a2.scenarios_strategiques) = Len(a2.cartographie_sr_ov)
              /\ \A n \in 1..Len(a2.scenarios_strategiques) :
                    LET sc == a2.scenarios_strategiques[n]
                    IN  /\ sc.gravite = a2.cartographie_sr_ov[sc.id].gravite_scenario
                        /\ sc.gravite \in 1..4
                        /\ sc.niveau_risque = niveaux[sc.gravite]

\* C20 witness: the source (3, 4, 3) of capability 3.3, mapped with
\* pertinence 4 to an objective of impact 4, gave a scenario of gravity 4,
\* 'Critique'.
C20_Witness ==
    /\ last.op = "generate_scenarios_strategiques"
    /\ args = [ressources |-> 3, determination |-> 4, competences |-> 3,
               impact |-> 4, pertinence |-> 4]
    /\ Len(a2.scenarios_strategiques) = 1
    /\ a2.sources_risque[1].capacite_globale = 33
    /\ a2.scenarios_strategiques[1].gravite = 4
    /\ a2.scenarios_strategiques[1].niveau_risque = "Critique"

(***************************************************************************)
(* SpecStatistiques: a Workshop2 session with its readers.  last holds the *)
(* value the most recent reader returned.                                  *)
(***************************************************************************)
GetStatistics(max) ==
    /\ Tick(max)
    /\ LET r == get_statistics(a2)
       IN  /\ a2' = r.a
           /\ last' = [op |-> "get_statistics", res |-> Outcome(r), ret |-> r.ret]
    /\ UNCHANGED <<fichiers, a1, a3, a4, a5, calculs, args>>

GetTopScenarios(max, TaillesIn) ==
    /\ Tick(max)
    /\ \E n \in TaillesIn :
         LET r == get_top_scenarios(a2, n)
         IN  /\ a2' = r.a
             /\ last' = [op |-> "get_top_scenarios", res |-> Outcome(r),
                         n |-> n, ret |-> r.ret]
    /\ UNCHANGED <<fichiers, a1, a3, a4, a5, calculs, args>>

GetSummary(max) ==
    /\ Tick(max)
    /\ LET r == get_summary(a2)
       IN  /\ a2' = r.a
           /\ last' = [op |-> "get_summary", res |-> Outcome(r), ret |-> r.ret]
    /\ UNCHANGED <<fichiers, a1, a3, a4, a5, calculs, args>>

CaracteristiquesStatistiques == {<<3, 4, 3>>, <<0, 1, 1>>}

ImpactsStatistiques == {4, 5}

PertinencesStatistiques == {1, 4}

\* n arguments of get_top_scenarios
Tailles == {1, 5}

NextStatistiques ==
    \/ AddSourceRisque(MaxAppelsStatistiques, CaracteristiquesStatistiques)
    \/ AddObjectifVise(MaxAppelsStatistiques, ImpactsStatistiques)
    \/ MapSrToOv(MaxAppelsStatistiques, 1..MaxRefId, 1..MaxRefId,
                 PertinencesStatistiques)
    \/ GenerateScenariosStrategiques(MaxAppelsStatistiques)
    \/ GetStatistics(MaxAppelsStatistiques)
    \/ GetTopScenarios(MaxAppelsStatistiques, Tailles)
    \/ GetSummary(MaxAppelsStatistiques)

SpecStatistiques == Init /\ [][NextStatistiques]_vars

\* the registered sources (objectives) that appear in a mapping entry
SourcesCouvertes ==
    {i \in 1..Len(a2.sources_risque) :
        \E k \in 1..Len(a2.cartographie_sr_ov) :
            a2.cartographie_sr_ov[k].sr_id = a2.sources_risque[i].id}

ObjectifsCouverts ==
    {j \in 1..Len(a2.objectifs_vises) :
        \E k \in 1..Len(a2.cartographie_sr_ov) :
            a2.cartographie_sr_ov[k].ov_id = a2.objectifs_vises[j].id}

\* C21: in every state reached by add and map calls (and the readers) the
\* coverage rate of the sources, and that of the objectives, is between 0
\* and 100 percent; it is 0 when there is no mapping entry or no registered
\* entity, 100 when there are registered entities and each of them appears
\* in a mapping entry; get_summary reports these two rates.
C21_TauxCouverture ==
    LET sr == _calculate_coverage_rate(a2, "sources")
        ov == _calculate_coverage_rate(a2, "objectifs")
    IN  /\ 0 <= sr /\ sr <= 1000
        /\ 0 <= ov /\ ov <= 1000
        /\ (a2.cartographie_sr_ov = <<>> \/ a2.sources_risque = <<>>) => sr = 0
        /\ (a2.cartographie_sr_ov = <<>> \/ a2.objectifs_vises = <<>>) => ov = 0
        /\ (a2.sources_risque # <<>>
              /\ Cardinality(SourcesCouvertes) = Len(a2.sources_risque))
           => sr = 1000
        /\ (a2.objectifs_vises # <<>>
              /\ Cardinality(ObjectifsCouverts) = Len(a2.objectifs_vises))
           => ov = 1000
        /\ last.op = "get_summary" =>
              /\ last.ret.taux_couverture_sr = sr
              /\ last.ret.taux_couverture_ov = ov

\* C21 witness: get_summary reports 100 percent of the sources and 50
\* percent of the objectives, the one source being mapped twice.
C21_Witness ==
    /\ last.op = "get_summary"
    /\ last.ret.taux_couverture_sr = 1000
    /\ last.ret.taux_couverture_ov = 500
    /\ Len(a2.cartographie_sr_ov) = 2

\* C29: whatever get_statistics and get_top_scenarios return reflects the
\* mapping entries present at the call: nb_scenarios_strategiques is the
\* number of valid entries, the gravity counts sum to it, and the top list
\* holds min(n, that number) scenarios, also when entries were added after
\* an earlier generation.
C29_LecteursAJour ==
    /\ last.op = "get_statistics" =>
          /\ last.ret.nb_scenarios_strategiques = Cardinality(RelationsValides)
          /\ last.ret.repartition_gravite[1] + last.ret.repartition_gravite[2]
               + last.ret.repartition_gravite[3] + last.ret.repartition_gravite[4]
             = Cardinality(RelationsValides)
    /\ last.op = "get_top_scenarios" =>
          Len(last.ret) = Min(last.n, Cardinality(RelationsValides))

(***************************************************************************)
(* SpecCalculateur: RiskCalculator.calculate_residual_risk.  Init draws    *)
(* the initial score; each call draws an efficacy.  In this specification  *)
(* calculs holds, per efficacy passed, the value the call returned.        *)
(***************************************************************************)
\* risque_initial arguments
ScoresInitiaux == 0..5

\* efficacite_mesures arguments, in hundredths
EfficacitesCalculateur == {0 - 5, 101} \cup {5 * k : k \in 0..20} \cup {1, 99}

InitCalculateur ==
    /\ a1 = W1Init
    /\ a2 = W2Init
    /\ a3 = W3Init
    /\ a4 = W4Init
    /\ a5 = W5Init
    /\ fichiers = EmptyDict
    /\ last = NoCall
    /\ calculs = {}
    /\ args \in [risque_initial : ScoresInitiaux]
    /\ appels = 0

CalculateResidualRisk(max, EfficacitesIn) ==
    /\ Tick(max)
    /\ \E e \in EfficacitesIn :
         LET r == calculate_residual_risk(args.risque_initial, e)
         IN  /\ calculs' = IF r.raised THEN calculs
                           ELSE calculs \cup {[efficacite |-> e, ret |-> r]}
             /\ last' = [op |-> "calculate_residual_risk", res |-> Outcome(r),
                         efficacite |-> e]
    /\ UNCHANGED <<fichiers, a1, a2, a3, a4, a5, args>>

NextCalculateur ==
    \/ CalculateResidualRisk(MaxAppelsCalculateur, EfficacitesCalculateur)

SpecCalculateur == InitCalculateur /\ [][NextCalculateur]_vars

\* C22: for an initial score in 1..4 and an efficacy in [0, 1] the call
\* returns a score between 1 and the initial score, the initial score
\* itself at efficacy 0, and of two calls on the same initial score the one
\* with the larger efficacy never returns the larger score (also against
\* every efficacy of the hundredths grid); with the initial score outside
\* 1..4 or the efficacy outside [0, 1] the call raises.
C22_ResiduelMonotone ==
    LET initial == args.risque_initial
    IN  /\ last.op = "calculate_residual_risk" =>
              (last.res = "raised") <=>
                  (initial \notin 1..4 \/ last.efficacite < 0
                      \/ last.efficacite > 100)
        /\ \A c \in calculs :
              /\ 1 <= c.ret.score /\ c.ret.score <= initial
              /\ c.efficacite = 0 => c.ret.score = initial
              /\ \A d \in calculs :
                    c.efficacite <= d.efficacite => c.ret.score >= d.ret.score
              /\ \A e \in 0..100 :
                    /\ ~calculate_residual_risk(initial, e).raised
                    /\ c.efficacite <= e =>
                          c.ret.score >= calculate_residual_risk(initial, e).score
                    /\ c.efficacite >= e =>
                          c.ret.score <= calculate_residual_risk(initial, e).score

\* C22 witness: on initial score 4, efficacy 0.25 gave 3 and efficacy 1 gave
\* 1.
C22_Witness ==
    /\ args.risque_initial = 4
    /\ \E c, d \in calculs :
          /\ c.efficacite = 25 /\ c.ret.score = 3
          /\ d.efficacite = 100 /\ d.ret.score = 1

(***************************************************************************)
(* SpecIds: the add operations of the five workshops, with accepted and    *)
(* rejected arguments.  An id is modelled by its number: the prefix of a   *)
(* collection (M, VM, BS, ER, SR, OV, PP, CA, SO, AE, ME, M) is a constant *)
(* of its add operation.                                                   *)
(***************************************************************************)
AddCheminAttaque(max, EtapesIn) ==
    /\ Tick(max)
    /\ \E e \in EtapesIn :
         LET r == add_chemin_attaque(a3, e)
         IN  /\ a3' = r.a
             /\ last' = Call("add_chemin_attaque", Outcome(r))
    /\ UNCHANGED <<fichiers, a1, a2, a4, a5, calculs, args>>

\* criticite, gravite and impact arguments: accepted, rejected
DegresIds == {2, 5}

SensibilitesIds ==
    {[D |-> 3, I |-> 4, C |-> 2, T |-> 1], [D |-> 1, I |-> 1, C |-> 1]}

CaracteristiquesIds == {<<3, 4, 3>>, <<0, 1, 1>>}

\* efficacite arguments of add_mesure_traitement: accepted, rejected
EfficacitesIds == {70, 150}

NextIds ==
    \/ AddMission(MaxAppelsIds, DegresIds)
    \/ AddValeurMetier(MaxAppelsIds, SensibilitesIds)
    \/ AddBienSupport(MaxAppelsIds, {<<1>>})
    \/ AddEvenementRedoute(MaxAppelsIds, DegresIds, {<<1>>})
    \/ AddSourceRisque(MaxAppelsIds, CaracteristiquesIds)
    \/ AddObjectifVise(MaxAppelsIds, DegresIds)
    \/ AddPartiePrenante(MaxAppelsIds, {<<2, 3, 2, 1>>})
    \/ AddCheminAttaque(MaxAppelsIds, {<<1, 2, 1>>})
    \/ AddScenarioOperationnel(MaxAppelsIds, {<<1, 2>>})
    \/ AddActionElementaire(MaxAppelsIds, {<<2, 2>>})
    \/ AddMesureExistante(MaxAppelsIds, {60}, {<<1>>})
    \/ AddMesureTraitement(MaxAppelsIds, Couts, EfficacitesIds, Delais,
                           Responsables)

SpecIds == Init /\ [][NextIds]_vars

\* the twelve collections filled by an add operation
Collections ==
    <<a1.missions, a1.valeurs_metier, a1.biens_supports, a1.evenements_redoutes,
      a2.sources_risque, a2.objectifs_vises,
      a3.parties_prenantes, a3.chemins_attaque,
      a4.scenarios_operationnels, a4.actions_elementaires, a4.mesures_existantes,
      a5.mesures_traitement>>

\* C23: in each of the twelve collections, after any sequence of accepted
\* and rejected add calls, the entry at position i carries the id number i:
\* the ids are pairwise distinct and are exactly 1..N in insertion order, N
\* being the length of the collection.
C23_IdsSequentiels ==
    \A c \in 1..Len(Collections) :
        LET coll == Collections[c]
        IN  /\ \A i \in 1..Len(coll) : coll[i].id = i
            /\ \A i, j \in 1..Len(coll) : i # j => coll[i].id # coll[j].id
            /\ {coll[i].id : i \in 1..Len(coll)} = 1..Len(coll)

\* C23 witness: a rejected add_mission on a study of two missions next to an
\* attack path.
C23_Witness ==
    /\ last = Call("add_mission", "raised")
    /\ Len(a1.missions) = 2
    /\ Len(a3.chemins_attaque) = 1

(***************************************************************************)
(* SpecPersistance: saves and loads of the five workshops under two study  *)
(* keys, with registrations in between.  In this specification calculs     *)
(* holds, per workshop and key, the record that was in memory at the most  *)
(* recent save.                                                            *)
(***************************************************************************)
\* self.study / self.assessment of workshop n
Memoire(n) ==
    CASE n = 1 -> a1 [] n = 2 -> a2 [] n = 3 -> a3 [] n = 4 -> a4 [] n = 5 -> a5

Save(max, AteliersIn, ClesIn) ==
    /\ Tick(max)
    /\ \E n \in AteliersIn, cle \in ClesIn :
         LET r == save(fichiers, Memoire(n), cle, n)
         IN  /\ fichiers' = r.fs
             /\ last' = [op |-> "save", res |-> Outcome(r),
                         atelier |-> n, cle |-> cle]
             /\ calculs' =
                    {c \in calculs : ~(c.atelier = n /\ c.cle = cle)}
                    \cup {[atelier |-> n, cle |-> cle, memoire |-> Memoire(n)]}
    /\ UNCHANGED <<a1, a2, a3, a4, a5, args>>

\* last also records the record that was in memory before the call
Load(max, AteliersIn, ClesIn) ==
    /\ Tick(max)
    /\ \E n \in AteliersIn, cle \in ClesIn :
         LET r == load(fichiers, Memoire(n), cle, n)
         IN  /\ a1' = IF n = 1 THEN r.a ELSE a1
             /\ a2' = IF n = 2 THEN r.a ELSE a2
             /\ a3' = IF n = 3 THEN r.a ELSE a3
             /\ a4' = IF n = 4 THEN r.a ELSE a4
             /\ a5' = IF n = 5 THEN r.a ELSE a5
             /\ last' = [op |-> "load", res |-> Outcome(r),
                         atelier |-> n, cle |-> cle, avant |-> Memoire(n)]
    /\ UNCHANGED <<fichiers, calculs, args>>

Ateliers == 1..5

\* study keys
Cles == {"etude1", "etude2"}

NextPersistance ==
    \/ Save(MaxAppelsPersistance, Ateliers, Cles)
    \/ Load(MaxAppelsPersistance, Ateliers, Cles)
    \/ AddMission(MaxAppelsPersistance, {2})
    \/ AddObjectifVise(MaxAppelsPersistance, {4})
    \/ AddCheminAttaque(MaxAppelsPersistance, {<<1, 2, 1>>})
    \/ AddActionElementaire(MaxAppelsPersistance, {<<2, 2>>})
    \/ AddRisque(MaxAppelsPersistance, {"R1"}, {<<2, 3>>})

SpecPersistance == Init /\ [][NextPersistance]_vars

\* the records in memory at the most recent save of workshop n under cle
DernierSave(n, cle) == {c \in calculs : c.atelier = n /\ c.cle = cle}

C27_ResiduelBorne ==
    (/\ \A k \in 1..Len(a4.synthese_risques) :
           a4.synthese_risques[k].gravite \in 1..4
     /\ \A m \in 1..Len(a4.mesures_existantes) :
           /\ 0 <= a4.mesures_existantes[m].efficacite
           /\ a4.mesures_existantes[m].efficacite <= 100)
    => \A k \in 1..Len(a4.synthese_risques) :
          /\ 1 <= a4.synthese_risques[k].risque_residuel
          /\ a4.synthese_risques[k].risque_residuel
                <= a4.synthese_risques[k].risque_brut

(***************************************************************************)
(* SpecCriticite: stakeholders of Workshop3 and the readers of the         *)
(* critical ones.  Init draws an evaluation among every combination of     *)
(* dependency, exposure and maturity in 1..4 and two out-of-range ones.    *)
(***************************************************************************)
GetPartiesPrenantesCritiques(max) ==
    /\ Tick(max)
    /\ LET r == get_parties_prenantes_critiques(a3)
       IN  /\ a3' = r.a
           /\ last' = [op |-> "get_parties_prenantes_critiques",
                       res |-> Outcome(r), ret |-> r.ret]
    /\ UNCHANGED <<fichiers, a1, a2, a4, a5, calculs, args>>

W3GetStatistics(max) ==
    /\ Tick(max)
    /\ LET r == W3_get_statistics(a3)
       IN  /\ a3' = r.a
           /\ last' = [op |-> "get_statistics", res |-> Outcome(r), ret |-> r.ret]
    /\ UNCHANGED <<fichiers, a1, a2, a4, a5, calculs, args>>

\* (dependance, exposition, confiance, maturite) arguments: every
\* combination of in-range dependency, exposure and maturity, and two
\* out-of-range ones
EvaluationsCriticite ==
    {<<d, e, 2, m>> : d \in 1..4, e \in 1..4, m \in 1..4}
        \cup {<<5, 4, 2, 1>>, <<4, 4, 2, 0>>}

\* the evaluations passed whatever the drawn one is: the two extreme
\* in-range ones and an out-of-range one
EvaluationsExtremes == {<<4, 4, 2, 1>>, <<1, 1, 2, 4>>, <<5, 4, 2, 1>>}

InitCriticite ==
    /\ a1 = W1Init
    /\ a2 = W2Init
    /\ a3 = W3Init
    /\ a4 = W4Init
    /\ a5 = W5Init
    /\ fichiers = EmptyDict
    /\ last = NoCall
    /\ calculs = {}
    /\ args \in EvaluationsCriticite
    /\ appels = 0

AddPartiePrenanteArgs(max) ==
    /\ AddPartiePrenante(max, {args})

NextCriticite ==
    \/ AddPartiePrenanteArgs(MaxAppelsCriticite)
    \/ AddPartiePrenante(MaxAppelsCriticite, EvaluationsExtremes)
    \/ GetPartiesPrenantesCritiques(MaxAppelsCriticite)
    \/ W3GetStatistics(MaxAppelsCriticite)

SpecCriticite == InitCriticite /\ [][NextCriticite]_vars

\* every registered stakeholder has dependency, exposure and maturity in 1..4
PartiesPrenantesEnEchelle ==
    \A i \in 1..Len(a3.parties_prenantes) :
        /\ a3.parties_prenantes[i].dependance \in 1..4
        /\ a3.parties_prenantes[i].exposition \in 1..4
        /\ a3.parties_prenantes[i].maturite \in 1..4

\* C30: when every registered stakeholder is rated in 1..4, each score is
\* (dependency + exposure - maturity) / 3 to the nearest tenth, between -0.7
\* and 2.3, each level is 'Faible' or 'Modéré', and
\* get_parties_prenantes_critiques returns the empty list and get_statistics
\* nb_pp_critiques = 0.
C30_AucunePartiePrenanteCritique ==
    PartiesPrenantesEnEchelle =>
        /\ \A i \in 1..Len(a3.parties_prenantes) :
              LET pp == a3.parties_prenantes[i]
                  somme == pp.dependance + pp.exposition - pp.maturite
              IN  /\ 0 - 7 <= pp.score_risque_tiers /\ pp.score_risque_tiers <= 23
                  /\ 0 - 15 <= 30 * pp.score_risque_tiers - 100 * somme
                  /\ 30 * pp.score_risque_tiers - 100 * somme <= 15
                  /\ pp.niveau_criticite \in {"Faible", "Modéré"}
        /\ get_parties_prenantes_critiques(a3).ret = <<>>
        /\ W3_get_statistics(a3).ret.nb_pp_critiques = 0
        /\ last.op = "get_parties_prenantes_critiques" => last.ret = <<>>
        /\ (last.op = "get_statistics" /\ "nb_pp_critiques" \in DOMAIN last.ret)
              => last.ret.nb_pp_critiques = 0

\* C30 witness: get_statistics counts no critical stakeholder among two
\* in-range ones with the extreme scores 2.3 and -0.7.
C30_Witness ==
    /\ last.op = "get_statistics"
    /\ last.ret.nb_parties_prenantes = 2
    /\ last.ret.nb_pp_critiques = 0
    /\ PartiesPrenantesEnEchelle
    /\ \E i, j \in 1..Len(a3.parties_prenantes) :
          /\ a3.parties_prenantes[i].score_risque_tiers = 23
          /\ a3.parties_prenantes[i].niveau_criticite = "Modéré"
          /\ a3.parties_prenantes[j].score_risque_tiers = 0 - 7
          /\ a3.parties_prenantes[j].niveau_criticite = "Faible"

====
